---- MODULE Spec2Model ----
(***************************************************************************)
(* MoneyMover: reconciliation of an ING bank statement against a           *)
(* MoneyLover wallet.                                                      *)
(*                                                                         *)
(*   SpecSel     the Statement Selector                                    *)
(*               (IngParser._find_closest_end_date_file)                   *)
(*   SpecReport  MoneyMover.print_bank_report: the ledger request, the     *)
(*               dedup pass, the preset pass and the report                *)
(*   Spec        MoneyMover.transfer_bank_transactions: the same passes,   *)
(*               the two prompts, the preset transfer and the manual entry *)
(*   SpecLookup  MoneyMover._get_category_id on its own, for every small   *)
(*               categories file                                           *)
(*   SpecSelector CategorySelector.run: the parent prompt and the          *)
(*               sub-category prompt, one input at a time                  *)
(*   SpecRerun   transfer_bank_transactions, then a second call of it on   *)
(*               the ledger that lists what the first call added           *)
(*   SpecToken   MoneyLoverClient.__init__: the cached access token        *)
(*                                                                         *)
(* An optional value (Python's None or a value) is a sequence of length    *)
(* zero or one: None == << >>, Some(x) == << x >>.                         *)
(***************************************************************************)
EXTENDS Integers, Sequences, FiniteSets, TLC

VARIABLES
    \* ---- IngParser._find_closest_end_date_file ----
    today,              \* datetime.today(): [date |-> <<d, m, y>>, hour |-> 0..23]
    file_match,         \* the list[re.Match | None] handed to the selector
    sel_i,              \* position of the for loop in file_match (next entry to read)
    recent_file,        \* None or Some(match.string)
    closest_days_diff,  \* [inf |-> BOOLEAN, v |-> Int]: float("inf") or an int
    date_range,         \* self.date_range: unset (<<>>) or Some(<<start, end>>)
    sel_pc,             \* "loop", "returned", "raised"; "off" when the selector is not run
    \* ---- MoneyMover ----
    op,                 \* the public method in progress, "none" when none is
    pc,                 \* its position
    transactions,       \* bank_statement.transactions, the table the passes write to
    ml_transactions,    \* self.ml_transactions, the last formatted ledger listing
    transaction_presets,\* self.transaction_presets, the ordered rule list
    report,             \* what print_report printed: None or Some(the texts, by row)
    \* ---- MoneyMover.transfer_bank_transactions ----
    transactions_to_add,\* row indices of tr_df[~is_in_ml & has_preset], None before line 165
    remaining,          \* row indices of tr_df[~(is_in_ml | has_preset)], None before line 170
    adding_ans,         \* the answer that ended ui.prompt_adding: None, Some("y"), Some("n")
    manual_ans,         \* the answer that ended ui.promt_manual_entry
    cursor,             \* position of the running iterrows() loop
    calls,              \* the calls of ml_api.add_transaction, in order: how the row
                        \* came to it (via), the type and category the user chose
                        \* for it if any, the payload, whether the call returned
                        \* (ok) and the failure it raised when it did not
    error,              \* the exception that left the method: None or Some(kind)
    returned,           \* the value returned: None or Some(row indices)
    manual_log,         \* how each call of _fill_manually ended, in order
    printed,            \* the category names printed by the except clause of
                        \* _create_payload_from_preset, in order
    previous_calls,     \* None in the first run of the method; in a run that
                        \* follows another, Some(the calls of the run before)
    \* ---- MoneyMover._get_category_id, on its own ----
    categories_file,    \* the table pd.read_csv(self.ml_api.categories_file) gives
    query,              \* the arguments: [category_name, category_type]
    looked_up,          \* None before the call, then Some(what the call did)
    \* ---- CategorySelector ----
    cs_input,           \* the table handed to CategorySelector(...)
    selected_category,  \* self.selected_category: None while the attribute is not
                        \* assigned, Some(None) or Some(Some(name)) once it is
    subcategories,      \* the children listed by _select_subcategory, None outside it
    user_input,         \* the last line read by input(), None before the first
    cs_pc,              \* "ChoosingParent", "ChoosingChild", "returned", "raised";
                        \* "off" when no selector is run
    \* ---- MoneyLoverClient.__init__, the access token ----
    access_token_file,  \* the token file: None when there is none, else
                        \* Some([mtime, text]), the time in seconds
    clock,              \* datetime.now(), in seconds
    access_token,       \* the local of __init__: None (Python's None) or Some(text)
    jwt_token,          \* self._jwt_token: None while not assigned
    login_calls,        \* the number of calls of _get_token
    tok_pc              \* "load", "loaded", "logged_in", "done", "raised"; "off" when no
                        \* client is constructed

sel_vars == <<today, file_match, sel_i, recent_file, closest_days_diff,
              date_range, sel_pc>>

run_vars == <<transactions_to_add, remaining, adding_ans, manual_ans, cursor,
              calls, error, returned, manual_log, printed, previous_calls>>

cat_vars == <<categories_file, query, looked_up, cs_input, selected_category,
              subcategories, user_input, cs_pc>>

tok_vars == <<access_token_file, clock, access_token, jwt_token, login_calls, tok_pc>>

mm_vars == <<op, pc, transactions, ml_transactions, transaction_presets, report,
             transactions_to_add, remaining, adding_ans, manual_ans, cursor,
             calls, error, returned, manual_log, printed, previous_calls>>

vars == <<today, file_match, sel_i, recent_file, closest_days_diff,
          date_range, sel_pc, op, pc, transactions, ml_transactions,
          transaction_presets, report, transactions_to_add, remaining,
          adding_ans, manual_ans, cursor, calls, error, returned, manual_log,
          printed, previous_calls,
          categories_file, query, looked_up, cs_input, selected_category,
          subcategories, user_input, cs_pc,
          access_token_file, clock, access_token, jwt_token, login_calls, tok_pc>>

None == << >>
Some(x) == << x >>

(***************************************************************************)
(* Calendar arithmetic: datetime.strptime(s, "%d-%m-%Y") followed by the   *)
(* subtraction of two datetimes and timedelta.days.                        *)
(***************************************************************************)
IsLeap(y) == (y % 4 = 0 /\ y % 100 # 0) \/ y % 400 = 0

DaysInMonth(m, y) ==
    IF m = 2 THEN (IF IsLeap(y) THEN 29 ELSE 28)
    ELSE IF m \in {4, 6, 9, 11} THEN 30 ELSE 31

RECURSIVE DaysBeforeMonth(_, _)
DaysBeforeMonth(m, y) ==
    IF m <= 1 THEN 0 ELSE DaysBeforeMonth(m - 1, y) + DaysInMonth(m - 1, y)

DaysBeforeYear(y) ==
    365 * (y - 1) + ((y - 1) \div 4) - ((y - 1) \div 100) + ((y - 1) \div 400)

\* the proleptic Gregorian ordinal of the date <<d, m, y>> (date.toordinal)
Ordinal(dt) == DaysBeforeYear(dt[3]) + DaysBeforeMonth(dt[2], dt[3]) + dt[1]

\* (now - end_date).days: the difference is normalised so that the seconds
\* part is non-negative, which makes .days the floor of the difference in days
days_diff_reversed(now, end_date) ==
    (((Ordinal(end_date) - Ordinal(now.date)) * 24) - now.hour) \div 24

days_diff(now, end_date) ==
    (((Ordinal(now.date) - Ordinal(end_date)) * 24) + now.hour) \div 24

(***************************************************************************)
(* Inputs of the selector.  A matched file name                            *)
(* (IBAN)_(datefrom)_(dateto).csv is the record of its three groups; the   *)
(* name itself (match.string) is determined by the three groups.           *)
(***************************************************************************)
MaxFiles == 3

EndDates == { <<30, 11, 2023>>, <<31, 12, 2023>>, <<31, 1, 2024>>,
              <<29, 2, 2024>>, <<30, 3, 2024>> }

\* the statement of a month starts on the first of that month
MonthStart(dt) == <<1, dt[2], dt[3]>>

Matches ==
    { [iban |-> "NL55INGB0000000000", start |-> MonthStart(e), end |-> e] : e \in EndDates }
    \cup { [iban |-> "NL66INGB0000000001", start |-> <<15, 1, 2024>>, end |-> <<29, 2, 2024>>],
           [iban |-> "NL66INGB0000000001", start |-> <<1, 1, 2024>>, end |-> <<30, 3, 2024>>] }

Todays == { [date |-> <<30, 3, 2024>>, hour |-> 0],
            [date |-> <<2, 4, 2024>>, hour |-> 15],
            [date |-> <<15, 2, 2024>>, hour |-> 9] }

FileEntries == {None} \cup { Some(m) : m \in Matches }

RECURSIVE SeqsUpTo(_, _)
SeqsUpTo(S, n) ==
    IF n = 0 THEN { << >> }
    ELSE LET shorter == SeqsUpTo(S, n - 1)
         IN  shorter \cup { Append(s, x) : s \in { t \in shorter : Len(t) = n - 1 }, x \in S }

\* the names of a directory listing are pairwise distinct
DistinctNames(fm) ==
    \A i, j \in 1..Len(fm) : (i # j /\ fm[i] # None) => fm[i] # fm[j]

\* transfer_bank_transactions has not started
RunOff ==
    /\ transactions_to_add = None
    /\ remaining = None
    /\ adding_ans = None
    /\ manual_ans = None
    /\ cursor = 1
    /\ calls = << >>
    /\ error = None
    /\ returned = None
    /\ manual_log = << >>
    /\ printed = << >>
    /\ previous_calls = None

\* neither _get_category_id on its own nor a CategorySelector is run
CatOff ==
    /\ categories_file = << >>
    /\ query = [category_name |-> "", category_type |-> ""]
    /\ looked_up = None
    /\ cs_input = << >>
    /\ selected_category = None
    /\ subcategories = None
    /\ user_input = None
    /\ cs_pc = "off"

\* no MoneyLoverClient is constructed
TokOff ==
    /\ access_token_file = None
    /\ clock = 0
    /\ access_token = None
    /\ jwt_token = None
    /\ login_calls = 0
    /\ tok_pc = "off"

\* no MoneyMover method runs
MMOff ==
    /\ RunOff
    /\ op = "none"
    /\ pc = "off"
    /\ transactions = << >>
    /\ ml_transactions = << >>
    /\ transaction_presets = << >>
    /\ report = None

SelInit ==
    /\ MMOff
    /\ CatOff
    /\ TokOff
    /\ today \in Todays
    /\ file_match \in { fm \in SeqsUpTo(FileEntries, MaxFiles) : DistinctNames(fm) }
    /\ sel_i = 1
    /\ recent_file = None
    /\ closest_days_diff = [inf |-> TRUE, v |-> 0]
    /\ date_range = None
    /\ sel_pc = "loop"

\* days_diff < closest_days_diff, with closest_days_diff possibly float("inf")
not_farther(d, closest) == closest.inf \/ d <= closest.v

strictly_closer(d, closest) == closest.inf \/ d < closest.v

\* self.date_range after one matched iteration: assigned only in the branch
\* that replaces recent_file
date_range_every_match(improves, match, old) == Some(<<match.start, match.end>>)

update_date_range(improves, match, old) ==
    IF improves THEN Some(<<match.start, match.end>>) ELSE old

\* one iteration of "for match in file_match"
find_closest_step ==
    /\ sel_pc = "loop"
    /\ sel_i <= Len(file_match)
    /\ sel_i' = sel_i + 1
    /\ IF file_match[sel_i] = None
       THEN UNCHANGED <<recent_file, closest_days_diff, date_range>>
       ELSE LET match == file_match[sel_i][1]
                d == days_diff(today, match.end)
                improves == strictly_closer(d, closest_days_diff)
            IN  /\ date_range' = update_date_range(improves, match, date_range)
                /\ IF improves
                   THEN /\ closest_days_diff' = [inf |-> FALSE, v |-> d]
                        /\ recent_file' = Some(match)
                   ELSE UNCHANGED <<recent_file, closest_days_diff>>
    /\ UNCHANGED <<today, file_match, sel_pc>>
    /\ UNCHANGED mm_vars
    /\ UNCHANGED cat_vars
    /\ UNCHANGED tok_vars

\* the return without the isinstance(recent_file, str) test
find_closest_return_unchecked ==
    /\ sel_pc = "loop"
    /\ sel_i > Len(file_match)
    /\ sel_pc' = "returned"
    /\ UNCHANGED <<today, file_match, sel_i, recent_file, closest_days_diff, date_range>>
    /\ UNCHANGED mm_vars
    /\ UNCHANGED cat_vars
    /\ UNCHANGED tok_vars

\* after the loop: return recent_file if it is a str
find_closest_return ==
    /\ sel_pc = "loop"
    /\ sel_i > Len(file_match)
    /\ recent_file # None
    /\ sel_pc' = "returned"
    /\ UNCHANGED <<today, file_match, sel_i, recent_file, closest_days_diff, date_range>>
    /\ UNCHANGED mm_vars
    /\ UNCHANGED cat_vars
    /\ UNCHANGED tok_vars

\* after the loop: raise FileNotFoundError
find_closest_raise ==
    /\ sel_pc = "loop"
    /\ sel_i > Len(file_match)
    /\ recent_file = None
    /\ sel_pc' = "raised"
    /\ UNCHANGED <<today, file_match, sel_i, recent_file, closest_days_diff, date_range>>
    /\ UNCHANGED mm_vars
    /\ UNCHANGED cat_vars
    /\ UNCHANGED tok_vars

SelNext == find_closest_step \/ find_closest_return \/ find_closest_raise

SpecSel == SelInit /\ [][SelNext]_vars

(***************************************************************************)
(* Strings.  A Python str is the sequence of its characters.               *)
(***************************************************************************)
UpperLetters == <<"A","B","C","D","E","F","G","H","I","J","K","L","M",
                  "N","O","P","Q","R","S","T","U","V","W","X","Y","Z">>
LowerLetters == <<"a","b","c","d","e","f","g","h","i","j","k","l","m",
                  "n","o","p","q","r","s","t","u","v","w","x","y","z">>

\* case folding of one character, as re.IGNORECASE compares characters
Fold(ch) ==
    IF \E k \in 1..26 : UpperLetters[k] = ch
    THEN LowerLetters[CHOOSE k \in 1..26 : UpperLetters[k] = ch]
    ELSE ch

DigitChars == <<"0","1","2","3","4","5","6","7","8","9">>

\* str(n) of a non-negative int
RECURSIVE NatStr(_)
NatStr(n) ==
    IF n < 10 THEN << DigitChars[n + 1] >>
    ELSE Append(NatStr(n \div 10), DigitChars[(n % 10) + 1])

\* str(x) of the float64 with the value cents / 100: repr keeps at least one
\* digit after the point and no trailing zero beyond it ("12.5", "5.0", "0.05")
float_str(cents) ==
    LET a == IF cents < 0 THEN -cents ELSE cents
        frac == a % 100
        digits == IF frac % 10 = 0
                  THEN << DigitChars[(frac \div 10) + 1] >>
                  ELSE << DigitChars[(frac \div 10) + 1], DigitChars[(frac % 10) + 1] >>
    IN  (IF cents < 0 THEN << "-" >> ELSE << >>) \o NatStr(a \div 100) \o << "." >> \o digits

\* re.match(pattern, text, re.IGNORECASE) for the patterns made of literal
\* characters and of ".", which stands for any one character: the pattern
\* must match a prefix of the text
RECURSIVE re_match(_, _)
re_match(pattern, text) ==
    IF pattern = << >> THEN TRUE
    ELSE IF text = << >> THEN FALSE
    ELSE /\ (Head(pattern) = "." \/ Fold(Head(pattern)) = Fold(Head(text)))
         /\ re_match(Tail(pattern), Tail(text))

(***************************************************************************)
(* The statement table (bank_statement.transactions) and the passes over   *)
(* it.  A row holds the statement's columns date, name and amount (in      *)
(* cents) and the columns the passes add; a column a row does not have     *)
(* (yet), or a NaN cell, is None.                                          *)
(***************************************************************************)
NewRow(date, name, amount) ==
    [date |-> date, name |-> name, amount |-> amount,
     is_in_ml |-> None, has_preset |-> None,
     note |-> None, category_name |-> None, type |-> None]

\* str(bank_transaction.get(column, "")) for the columns a condition may name:
\* "name" and "amount" of the statement; any other name stands for a column
\* the statement does not have
get_str(bank_transaction, column) ==
    CASE column = "name" -> bank_transaction.name
      [] column = "amount" -> float_str(bank_transaction.amount)
      [] OTHER -> << >>

\* MoneyMover._is_preset_matched: the conditions are scanned in the order of
\* the dict and the first failing one returns False
is_preset_matched_any(bank_transaction, preset) ==
    \/ preset.conditions = << >>
    \/ \E k \in 1..Len(preset.conditions) :
           re_match(preset.conditions[k][2],
                    get_str(bank_transaction, preset.conditions[k][1]))

RECURSIVE conditions_hold(_, _)
conditions_hold(bank_transaction, conditions) ==
    IF conditions = << >> THEN TRUE
    ELSE IF ~re_match(Head(conditions)[2], get_str(bank_transaction, Head(conditions)[1]))
         THEN FALSE
         ELSE conditions_hold(bank_transaction, Tail(conditions))

is_preset_matched(bank_transaction, preset) ==
    conditions_hold(bank_transaction, preset.conditions)

\* MoneyMover._format_transactions: amount rounded to 2 decimals (cents, from
\* thousandths), displayDate turned into a date
round2(mills) ==
    LET q == mills \div 10
        r == mills % 10
    IN  IF r < 5 THEN q ELSE IF r > 5 THEN q + 1 ELSE (IF q % 2 = 0 THEN q ELSE q + 1)

format_transactions(response) ==
    [j \in 1..Len(response) |->
        [amount |-> round2(response[j].amount), date |-> Ordinal(response[j].displayDate)]]

\* Series.isin over a column of ml_transactions
isin_amount(x, ml) == \E j \in 1..Len(ml) : ml[j].amount = x
isin_date(x, ml) == \E j \in 1..Len(ml) : ml[j].date = x

\* MoneyMover._check_if_already_added
check_if_already_added_same_row(bank_transactions, ml) ==
    [i \in 1..Len(bank_transactions) |->
        [bank_transactions[i] EXCEPT !.is_in_ml =
            Some(\E j \in 1..Len(ml) :
                    /\ ml[j].amount = bank_transactions[i].amount
                    /\ ml[j].date = bank_transactions[i].date)]]

check_if_already_added(bank_transactions, ml) ==
    IF ml = << >>
    THEN [i \in 1..Len(bank_transactions) |->
            [bank_transactions[i] EXCEPT !.is_in_ml = Some(FALSE)]]
    ELSE [i \in 1..Len(bank_transactions) |->
            [bank_transactions[i] EXCEPT !.is_in_ml =
                Some(isin_amount(bank_transactions[i].amount, ml)
                     /\ isin_date(bank_transactions[i].date, ml))]]

\* the inner loop of _compare_to_presets: the index of the preset at which
\* the loop breaks, 0 when it runs to its end
last_match(bank_transaction, presets, k) ==
    IF \E m \in k..Len(presets) : is_preset_matched(bank_transaction, presets[m])
    THEN CHOOSE m \in k..Len(presets) :
            /\ is_preset_matched(bank_transaction, presets[m])
            /\ \A n \in (m + 1)..Len(presets) : ~is_preset_matched(bank_transaction, presets[n])
    ELSE 0

RECURSIVE first_match(_, _, _)
first_match(bank_transaction, presets, k) ==
    IF k > Len(presets) THEN 0
    ELSE IF is_preset_matched(bank_transaction, presets[k]) THEN k
    ELSE first_match(bank_transaction, presets, k + 1)

\* one row of _compare_to_presets
compare_row(bank_transaction, presets) ==
    LET m == first_match(bank_transaction, presets, 1)
    IN  IF m = 0
        THEN [bank_transaction EXCEPT !.has_preset = Some(FALSE)]
        ELSE [bank_transaction EXCEPT
                 !.has_preset = Some(TRUE),
                 !.note = Some(presets[m].label.note),
                 !.category_name = Some(presets[m].label.category_name),
                 !.type = Some(presets[m].label.type)]

\* MoneyMover._compare_to_presets
compare_to_presets_not_in_ml(transactions_df, presets) ==
    [i \in 1..Len(transactions_df) |->
        IF transactions_df[i].is_in_ml = Some(TRUE)
        THEN [transactions_df[i] EXCEPT !.has_preset = Some(FALSE)]
        ELSE compare_row(transactions_df[i], presets)]

compare_to_presets(transactions_df, presets) ==
    [i \in 1..Len(transactions_df) |-> compare_row(transactions_df[i], presets)]

\* UserPrompts.print_report: the text printed for each row
report_text(row) ==
    IF row.is_in_ml = Some(TRUE) THEN "In MoneyLover"
    ELSE IF row.has_preset = Some(TRUE) THEN "Recognized"
    ELSE "Requires manual entry"

print_report(transactions_df) ==
    [i \in 1..Len(transactions_df) |-> report_text(transactions_df[i])]

(***************************************************************************)
(* Inputs of the reconciliation.                                           *)
(***************************************************************************)
MaxRows == 2
MaxLedger == 2
MaxRules == 2

Str_Shop == <<"S","h","o","p">>
Str_shell == <<"s","h","e","l","l">>
Str_ATM == <<"A","T","M">>

Day1 == <<5, 3, 2024>>
Day2 == <<6, 3, 2024>>

\* rows of the statement, as _parse_statement leaves them
BankRows == { NewRow(Ordinal(Day1), Str_Shop, 1250),
              NewRow(Ordinal(Day1), Str_shell, 1250),
              NewRow(Ordinal(Day2), Str_Shop, 500),
              NewRow(Ordinal(Day2), Str_ATM, 500) }

Statements == SeqsUpTo(BankRows, MaxRows)

\* the transactions of a ledger response, in the order the API lists them;
\* amounts in thousandths
LedgerRows == << [amount |-> 12500, displayDate |-> Day1],
                 [amount |-> 12504, displayDate |-> Day2],
                 [amount |-> 4996, displayDate |-> Day1],
                 [amount |-> 5000, displayDate |-> Day2] >>

RECURSIVE Pick(_, _)
\* the entries of seq whose positions are in S, in the order of seq
Pick(seq, S) ==
    IF seq = << >> THEN << >>
    ELSE LET rest == Pick(Tail(seq), { k - 1 : k \in S \ {1} })
         IN  IF 1 \in S THEN << Head(seq) >> \o rest ELSE rest

Responses ==
    { Pick(LedgerRows, S) :
        S \in { T \in SUBSET (1..Len(LedgerRows)) : Cardinality(T) <= MaxLedger } }

Label(note, category_name, type) ==
    [note |-> note, category_name |-> category_name, type |-> type]

\* user presets: conditions is the dict, in its order, as (column, pattern) pairs
Rule_Groceries ==
    [conditions |-> << <<"name", <<"s","h","o","p">> >> >>,
     label |-> Label("Groceries", "Food", "expense")]

Rule_Fuel ==
    [conditions |-> << <<"name", <<"s","h">> >>, <<"amount", <<"1","2",".","5">> >> >>,
     label |-> Label("Fuel", "Car", "expense")]

Rule_Memo ==
    [conditions |-> << <<"memo", <<"x">> >>, <<"name", <<"s">> >> >>,
     label |-> Label("Memo", "Food", "expense")]

\* its category is one of another wallet
Rule_Shell ==
    [conditions |-> << <<"memo", << >> >>, <<"name", <<"S",".","E">> >> >>,
     label |-> Label("Shell", "Petrol", "expense")]

Rule_Other ==
    [conditions |-> << >>,
     label |-> Label("Other", "Salary", "income")]

Presets == { Rule_Groceries, Rule_Fuel, Rule_Memo, Rule_Shell, Rule_Other }

PresetLists == SeqsUpTo(Presets, MaxRules)

\* the selector is not run
SelOff ==
    /\ today = [date |-> Day2, hour |-> 0]
    /\ file_match = << >>
    /\ sel_i = 1
    /\ recent_file = None
    /\ closest_days_diff = [inf |-> TRUE, v |-> 0]
    /\ date_range = Some(<<Day1, Day2>>)
    /\ sel_pc = "off"

(***************************************************************************)
(* print_bank_report: request_transactions, the two passes, print_report.  *)
(***************************************************************************)
ReportInit ==
    /\ SelOff
    /\ CatOff
    /\ TokOff
    /\ RunOff
    /\ op = "print_bank_report"
    /\ pc = "start"
    /\ transactions \in Statements
    /\ ml_transactions = << >>
    /\ transaction_presets \in PresetLists
    /\ report = None

\* MoneyMover.request_transactions: the ledger answers with some listing
request_transactions ==
    /\ pc = "start"
    /\ \E response \in Responses :
           ml_transactions' = format_transactions(response)
    /\ pc' = "requested"
    /\ UNCHANGED <<op, transactions, transaction_presets, report>>
    /\ UNCHANGED run_vars
    /\ UNCHANGED sel_vars
    /\ UNCHANGED cat_vars
    /\ UNCHANGED tok_vars

\* a table that has the column is_in_ml keeps it as it is
dedup_pass_once ==
    /\ pc = "requested"
    /\ transactions' =
          IF transactions # << >> /\ \A i \in 1..Len(transactions) : transactions[i].is_in_ml # None
          THEN transactions
          ELSE check_if_already_added(transactions, ml_transactions)
    /\ pc' = "checked"
    /\ UNCHANGED <<op, ml_transactions, transaction_presets, report>>
    /\ UNCHANGED run_vars
    /\ UNCHANGED sel_vars
    /\ UNCHANGED cat_vars
    /\ UNCHANGED tok_vars

\* df = self._check_if_already_added(df)
dedup_pass ==
    /\ pc = "requested"
    /\ transactions' = check_if_already_added(transactions, ml_transactions)
    /\ pc' = "checked"
    /\ UNCHANGED <<op, ml_transactions, transaction_presets, report>>
    /\ UNCHANGED run_vars
    /\ UNCHANGED sel_vars
    /\ UNCHANGED cat_vars
    /\ UNCHANGED tok_vars

\* df = self._compare_to_presets(df)
preset_pass ==
    /\ pc = "checked"
    /\ transactions' = compare_to_presets(transactions, transaction_presets)
    /\ pc' = "compared"
    /\ UNCHANGED <<op, ml_transactions, transaction_presets, report>>
    /\ UNCHANGED run_vars
    /\ UNCHANGED sel_vars
    /\ UNCHANGED cat_vars
    /\ UNCHANGED tok_vars

\* ui.print_report(df)
report_pass ==
    /\ op = "print_bank_report"
    /\ pc = "compared"
    /\ report' = Some(print_report(transactions))
    /\ pc' = "done"
    /\ UNCHANGED <<op, transactions, ml_transactions, transaction_presets>>
    /\ UNCHANGED run_vars
    /\ UNCHANGED sel_vars
    /\ UNCHANGED cat_vars
    /\ UNCHANGED tok_vars

ReportNext == request_transactions \/ dedup_pass \/ preset_pass \/ report_pass

SpecReport == ReportInit /\ [][ReportNext]_vars

(***************************************************************************)
(* The wallet and its categories (ml_api.categories, categories_file).     *)
(***************************************************************************)
active_wallet_id == "w1"

Category(id, name, type, wallet_id, parent) ==
    [id |-> id, name |-> name, type |-> type, wallet_id |-> wallet_id, parent |-> parent]

\* the cached category table, in file order
Categories ==
    << Category("c1", "Food", "expense", "w1", None),
       Category("c2", "Car", "expense", "w1", None),
       Category("c3", "Car", "expense", "w1", None),
       Category("c4", "Salary", "income", "w1", None),
       Category("c5", "Petrol", "expense", "w2", None),
       Category("c6", "Groceries", "expense", "w1", Some("c1")),
       Category("c7", "Food", "income", "w1", None) >>

\* self.wallet_categories, set by set_wallet
wallet_categories ==
    LET in_wallet(c) == c.wallet_id = active_wallet_id
    IN  SelectSeq(Categories, in_wallet)

\* more than one match is an error as well
category_lookup_unique(df, category_name, category_type) ==
    LET hit(c) == /\ c.wallet_id = active_wallet_id
                  /\ c.name = category_name
                  /\ c.type = category_type
        found == SelectSeq(df, hit)
    IN  IF Len(found) # 1
        THEN [raised |-> Some("ValueError"), printed |-> None, id |-> None]
        ELSE [raised |-> None, printed |-> None, id |-> Some(found[1].id)]

\* MoneyMover._get_category_id on the table df read from the categories
\* file: the exception raised if any, the number of matches printed as a
\* warning if any, and the id returned if any
category_lookup(df, category_name, category_type) ==
    LET hit(c) == /\ c.wallet_id = active_wallet_id
                  /\ c.name = category_name
                  /\ c.type = category_type
        found == SelectSeq(df, hit)
    IN  IF found = << >>
        THEN [raised |-> Some("ValueError"), printed |-> None, id |-> None]
        ELSE [raised |-> None,
              printed |-> IF Len(found) > 1 THEN Some(Len(found)) ELSE None,
              id |-> Some(found[1].id)]

\* MoneyMover._get_category_id in a run: None stands for the ValueError
get_category_id(category_name, category_type) ==
    category_lookup(Categories, category_name, category_type).id

(***************************************************************************)
(* _get_category_id on its own, for every small categories file.           *)
(***************************************************************************)
MaxCategories == 3

\* the _id of the k-th row of a table
CategoryId(k) == << "c" >> \o NatStr(k)

LookupRows ==
    { [name |-> n, type |-> t, wallet_id |-> w] :
        n \in {"Food", "Car"}, t \in {"expense", "income"}, w \in {"w1", "w2"} }

LookupTables ==
    { [k \in 1..Len(rows) |->
          Category(CategoryId(k), rows[k].name, rows[k].type, rows[k].wallet_id, None)] :
        rows \in SeqsUpTo(LookupRows, MaxCategories) }

Queries ==
    { [category_name |-> n, category_type |-> t] :
        n \in {"Food", "Car", "Rent"}, t \in {"expense", "income"} }

LookupInit ==
    /\ SelOff
    /\ MMOff
    /\ TokOff
    /\ categories_file \in LookupTables
    /\ query \in Queries
    /\ looked_up = None
    /\ cs_input = << >>
    /\ selected_category = None
    /\ subcategories = None
    /\ user_input = None
    /\ cs_pc = "off"

\* one call of _get_category_id
get_category_id_call ==
    /\ looked_up = None
    /\ looked_up' = Some(category_lookup(categories_file, query.category_name,
                                         query.category_type))
    /\ UNCHANGED <<categories_file, query, cs_input, selected_category,
                   subcategories, user_input, cs_pc>>
    /\ UNCHANGED tok_vars
    /\ UNCHANGED mm_vars
    /\ UNCHANGED sel_vars

SpecLookup == LookupInit /\ [][get_category_id_call]_vars

(***************************************************************************)
(* CategorySelector.  A line read by input() is the sequence of its        *)
(* characters; the index n of Python is the position n + 1 of a sequence.  *)
(***************************************************************************)
\* the character U+00B2 (superscript two): a digit for str.isdigit, not a
\* decimal digit for int
Superscript2 == "sup2"

IsDecimal(ch) == \E d \in 1..10 : DigitChars[d] = ch

\* str.isdigit
isdigit(str) ==
    /\ str # << >>
    /\ \A k \in 1..Len(str) : IsDecimal(str[k]) \/ str[k] = Superscript2

RECURSIVE DecimalValue(_)
DecimalValue(str) ==
    IF str = << >> THEN 0
    ELSE 10 * DecimalValue(SubSeq(str, 1, Len(str) - 1))
         + (CHOOSE d \in 0..9 : DigitChars[d + 1] = str[Len(str)])

\* int(str) of a str for which isdigit holds: Some(value), or None for the
\* ValueError (invalid literal for int() with base 10)
int(str) ==
    IF \A k \in 1..Len(str) : IsDecimal(str[k])
    THEN Some(DecimalValue(str))
    ELSE None

\* str.lower
lower(str) == [k \in 1..Len(str) |-> Fold(str[k])]

\* bool(name) of a str
truthy(name) == name # ""

\* Series.drop_duplicates on a sequence of names
RECURSIVE drop_duplicates(_)
drop_duplicates(names) ==
    IF names = << >> THEN << >>
    ELSE LET init == drop_duplicates(SubSeq(names, 1, Len(names) - 1))
             last == names[Len(names)]
         IN  IF \E m \in 1..Len(init) : init[m] = last
             THEN init ELSE Append(init, last)

\* CategorySelector.parent_categories: the top-level rows, renumbered from 0
\* by the merge
parent_categories(categories) ==
    LET isna(c) == c.parent = None
    IN  SelectSeq(categories, isna)

\* the children are counted in the table as given, no duplicate dropped
count_subcategories_all_rows(categories, parents_df) ==
    [m \in 1..Len(parents_df) |->
        LET n == Cardinality({ k \in 1..Len(cs_input) :
                                  cs_input[k].parent = Some(parents_df[m].id) })
        IN  IF n = 0 THEN None ELSE Some(n)]

\* CategorySelector._count_subcategories: the column "sub-categories" of
\* the parents, row by row: value_counts of the parent column, joined to
\* the parents on their _id; None is the blank that stands for no child
count_subcategories(categories, parents_df) ==
    [m \in 1..Len(parents_df) |->
        LET n == Cardinality({ k \in 1..Len(categories) :
                                  categories[k].parent = Some(parents_df[m].id) })
        IN  IF n = 0 THEN None ELSE Some(n)]

\* the children are read from the table as given, no duplicate dropped
get_children_all_rows(categories, parent_category) ==
    LET named == { m \in 1..Len(categories) : categories[m].name = parent_category }
        parent_id == categories[CHOOSE m \in named : \A o \in named : m <= o].id
        children_mask(c) == c.parent = Some(parent_id)
        children == SelectSeq(cs_input, children_mask)
    IN  [m \in 1..Len(children) |-> children[m].name]

\* CategorySelector._get_children
get_children(categories, parent_category) ==
    LET named == { m \in 1..Len(categories) : categories[m].name = parent_category }
        parent_id == categories[CHOOSE m \in named : \A o \in named : m <= o].id
        children_mask(c) == c.parent = Some(parent_id)
        children == SelectSeq(categories, children_mask)
    IN  drop_duplicates([m \in 1..Len(children) |-> children[m].name])

\* CategorySelector.__init__: categories.drop_duplicates("name")
RECURSIVE drop_duplicates_name(_)
drop_duplicates_name(cats) ==
    IF cats = << >> THEN << >>
    ELSE LET init == drop_duplicates_name(SubSeq(cats, 1, Len(cats) - 1))
             last == cats[Len(cats)]
         IN  IF \E m \in 1..Len(init) : init[m].name = last.name
             THEN init ELSE Append(init, last)

\* self.categories of the selector built on cs_input
self_categories == drop_duplicates_name(cs_input)

SelectorNames == {"Food", "Car", "Groceries"}

\* a table of the wallet's categories of one type: a sub-category names a
\* top-level row of the table, by its _id, as its parent
SelectorTables ==
    { t \in { [k \in 1..Len(rows) |->
                  Category(CategoryId(k), rows[k].name, "expense", active_wallet_id,
                           IF rows[k].parent = 0 THEN None
                           ELSE Some(CategoryId(rows[k].parent)))] :
               rows \in SeqsUpTo({ [name |-> n, parent |-> q] :
                                     n \in SelectorNames, q \in 0..2 }, MaxCategories) } :
        \A k \in 1..Len(t) :
            t[k].parent # None =>
                \E m \in 1..Len(t) : t[m].id = t[k].parent[1] /\ t[m].parent = None }

SelectorInputs ==
    { NatStr(n) : n \in 0..MaxCategories }
    \cup { << "0", "1" >>, << "s" >>, << "S" >>, << "b" >>, << "B" >>, << >>,
           << "x" >>, << Superscript2 >> }

\* CategorySelector(categories), before run() reads its first input
SelectorInit ==
    /\ SelOff
    /\ MMOff
    /\ TokOff
    /\ categories_file = << >>
    /\ query = [category_name |-> "", category_type |-> ""]
    /\ looked_up = None
    /\ cs_input \in SelectorTables
    /\ selected_category = None
    /\ subcategories = None
    /\ user_input = None
    /\ cs_pc = "ChoosingParent"

selector_frame ==
    /\ UNCHANGED <<categories_file, query, looked_up, cs_input>>
    /\ UNCHANGED tok_vars
    /\ UNCHANGED mm_vars
    /\ UNCHANGED sel_vars

\* one pass of the loop of run(): _display_categories, then
\* _category_selected up to its return or up to the first input() of
\* _select_subcategory
category_selected ==
    /\ cs_pc = "ChoosingParent"
    /\ \E inp \in SelectorInputs :
         LET parents == parent_categories(self_categories)
         IN  /\ user_input' = Some(inp)
             /\ IF isdigit(inp)
                THEN IF int(inp) = None
                     THEN /\ cs_pc' = "raised"
                          /\ UNCHANGED <<selected_category, subcategories>>
                     ELSE IF int(inp)[1] < Len(parents)
                          THEN LET name == parents[int(inp)[1] + 1].name
                                   children == get_children(self_categories, name)
                               IN  /\ selected_category' = Some(Some(name))
                                   /\ IF children = << >>
                                      THEN /\ cs_pc' = "returned"
                                           /\ UNCHANGED subcategories
                                      ELSE /\ cs_pc' = "ChoosingChild"
                                           /\ subcategories' = Some(children)
                          ELSE UNCHANGED <<selected_category, subcategories, cs_pc>>
                ELSE IF lower(inp) = << "s" >>
                     THEN /\ selected_category' = Some(None)
                          /\ cs_pc' = "returned"
                          /\ UNCHANGED subcategories
                     ELSE UNCHANGED <<selected_category, subcategories, cs_pc>>
    /\ selector_frame

\* 'b' ends the selection with no category
select_subcategory_back_ends ==
    /\ cs_pc = "ChoosingChild"
    /\ \E inp \in SelectorInputs :
         /\ user_input' = Some(inp)
         /\ IF lower(inp) = << "b" >>
            THEN /\ selected_category' = Some(None)
                 /\ subcategories' = None
                 /\ cs_pc' = "returned"
            ELSE UNCHANGED <<selected_category, subcategories, cs_pc>>
    /\ selector_frame

\* one input of the loop of _select_subcategory and, when it returns, the
\* rest of _category_selected: a truthy value ends run(), None leads back to
\* the parent categories
select_subcategory ==
    /\ cs_pc = "ChoosingChild"
    /\ \E inp \in SelectorInputs :
         /\ user_input' = Some(inp)
         /\ IF isdigit(inp)
            THEN IF int(inp) = None
                 THEN /\ cs_pc' = "raised"
                      /\ UNCHANGED <<selected_category, subcategories>>
                 ELSE IF int(inp)[1] < Len(subcategories[1])
                      THEN LET name == subcategories[1][int(inp)[1] + 1]
                           IN  /\ selected_category' = Some(Some(name))
                               /\ subcategories' = None
                               /\ cs_pc' = IF truthy(name) THEN "returned"
                                           ELSE "ChoosingParent"
                      ELSE UNCHANGED <<selected_category, subcategories, cs_pc>>
            ELSE IF lower(inp) = << "b" >>
                 THEN /\ cs_pc' = "ChoosingParent"
                      /\ subcategories' = None
                      /\ UNCHANGED selected_category
                 ELSE IF inp = << >>
                      THEN /\ cs_pc' = IF truthy(selected_category[1][1]) THEN "returned"
                                       ELSE "ChoosingParent"
                           /\ subcategories' = None
                           /\ UNCHANGED selected_category
                      ELSE UNCHANGED <<selected_category, subcategories, cs_pc>>
    /\ selector_frame

SelectorNext == category_selected \/ select_subcategory

SpecSelector == SelectorInit /\ [][SelectorNext]_vars

\* the ways ml_api.add_transaction fails: requests.post times out,
\* raise_for_status meets a status that is not a success, the answer carries
\* a non-zero error code, or its data is not a dict
post_request_failures ==
    {"Timeout", "HTTPError", "MoneyLoverException", "ReturnedTypeError"}

\* what one call of ml_api.add_transaction does: it returns (None) or it
\* raises one of the failures
add_transaction_outcomes == {None} \cup { Some(kind) : kind \in post_request_failures }

\* the note is taken from the row's note column
create_payload_row_note(idx, category_id, bank_transaction, note) ==
    [idx |-> idx,
     wallet_id |-> active_wallet_id,
     category_id |-> category_id,
     amount |-> bank_transaction.amount,
     date |-> bank_transaction.date,
     note |-> IF bank_transaction.note = None THEN "" ELSE bank_transaction.note[1]]

\* MoneyMover._create_payload, with the row index the call is made for
create_payload(idx, category_id, bank_transaction, note) ==
    [idx |-> idx,
     wallet_id |-> active_wallet_id,
     category_id |-> category_id,
     amount |-> bank_transaction.amount,
     date |-> bank_transaction.date,
     note |-> note]

\* MoneyMover._create_payload_from_preset for the row idx: the exception
\* that leaves it if any, the category name its except clause prints if
\* any, and the payload it returns if any.  The except clause is for
\* KeyError alone; any other exception of the try block passes it by.
create_payload_from_preset(idx, bank_transaction) ==
    LET category == bank_transaction.category_name[1]
        found == category_lookup(Categories, category, bank_transaction.type[1])
    IN  IF found.raised = Some("KeyError")
        THEN [raised |-> Some("KeyError"), printed |-> Some(category), payload |-> None]
        ELSE IF found.raised # None
        THEN [raised |-> found.raised, printed |-> None, payload |-> None]
        ELSE [raised |-> None, printed |-> None,
              payload |-> Some(create_payload(idx, found.id[1], bank_transaction,
                                              bank_transaction.note[1]))]

TRANSACTION_TYPES == [d |-> "debt/loan", i |-> "income", e |-> "expense"]

\* the names CategorySelector.run can return for a category table: a parent
\* picked by index, or a child of a picked parent
selectable_names(cats) ==
    LET dd == drop_duplicates_name(cats)
        parents == { m \in 1..Len(dd) : dd[m].parent = None }
    IN  { dd[m].name : m \in parents }
        \cup { dd[n].name : n \in { n \in 1..Len(dd) :
                   \E m \in parents : dd[n].parent = Some(dd[m].id) } }

\* ui.choose_category for each transaction type: None (skipped) or Some(name)
category_outcomes ==
    [transaction_type \in { TRANSACTION_TYPES[key] : key \in DOMAIN TRANSACTION_TYPES } |->
        LET of_type(c) == c.type = transaction_type
        IN  {None} \cup { Some(n) :
                n \in selectable_names(SelectSeq(wallet_categories, of_type)) }]

choose_category_outcomes(transaction_type) == category_outcomes[transaction_type]

Inputs == {"y", "n", "x", ""}

Notes == {"lunch"}

\* the (y/n) loops of prompt_adding and promt_manual_entry on one input:
\* Some(TRUE), Some(FALSE), or None when the input is invalid and asked again
yes_unless_no(ans) == IF ans = "n" THEN Some(FALSE) ELSE Some(TRUE)

yes_no(ans) ==
    IF ans = "y" THEN Some(TRUE)
    ELSE IF ans = "n" THEN Some(FALSE)
    ELSE None

\* the masks of lines 165 and 170
to_add_mask_has_preset(row) == row.has_preset = Some(TRUE)

to_add_mask(row) == row.is_in_ml # Some(TRUE) /\ row.has_preset = Some(TRUE)

remaining_mask_no_preset(row) == ~(row.has_preset = Some(TRUE))

remaining_mask(row) == ~(row.is_in_ml = Some(TRUE) \/ row.has_preset = Some(TRUE))

RECURSIVE Ascending(_)
\* the members of a set of row indices in ascending order
Ascending(S) ==
    IF S = {} THEN << >>
    ELSE LET m == CHOOSE x \in S : \A y \in S : x <= y
         IN  << m >> \o Ascending(S \ {m})

\* the same rows taken from the last to the first
to_add_index_reversed(df) ==
    LET asc == Ascending({ i \in 1..Len(df) : to_add_mask(df[i]) })
    IN  [n \in 1..Len(asc) |-> asc[Len(asc) + 1 - n]]

\* the index of tr_df[~tr_df["is_in_ml"] & tr_df["has_preset"]], in the order of tr_df
to_add_index(df) == Ascending({ i \in 1..Len(df) : to_add_mask(df[i]) })

\* every row that is not in the ledger, with a preset or without
remaining_index_not_in_ml(df) ==
    Ascending({ i \in 1..Len(df) : df[i].is_in_ml # Some(TRUE) })

\* the index of tr_df[~(tr_df["is_in_ml"] | tr_df["has_preset"])]
remaining_index(df) == Ascending({ i \in 1..Len(df) : remaining_mask(df[i]) })

(***************************************************************************)
(* transfer_bank_transactions.  The rule lists of a run are a few lists of *)
(* the rules above.                                                        *)
(***************************************************************************)
RunPresetLists ==
    { << >>,
      << Rule_Groceries >>,
      << Rule_Shell, Rule_Groceries >>,
      << Rule_Fuel, Rule_Groceries >> }

Init ==
    /\ SelOff
    /\ CatOff
    /\ TokOff
    /\ RunOff
    /\ op = "transfer_bank_transactions"
    /\ pc = "start"
    /\ transactions \in Statements
    /\ ml_transactions = << >>
    /\ transaction_presets \in RunPresetLists
    /\ report = None

run_frame == UNCHANGED <<op, transactions, ml_transactions, transaction_presets, report>>

\* lines 165-167: select the rows to add; ui.prompt_adding returns False at
\* once when there is none
select_to_add ==
    /\ op = "transfer_bank_transactions"
    /\ pc = "compared"
    /\ transactions_to_add' = Some(to_add_index(transactions))
    /\ pc' = IF transactions_to_add'[1] = << >> THEN "select_remaining" ELSE "ask_adding"
    /\ UNCHANGED <<remaining, adding_ans, manual_ans, cursor, calls, error, returned>>
    /\ UNCHANGED <<manual_log, printed, previous_calls>>
    /\ run_frame
    /\ UNCHANGED sel_vars
    /\ UNCHANGED cat_vars
    /\ UNCHANGED tok_vars

\* ui.prompt_adding: one input at the (y/n) prompt
prompt_adding ==
    /\ pc = "ask_adding"
    /\ \E ans \in Inputs :
         LET r == yes_no(ans)
         IN  IF r = None
             THEN UNCHANGED <<pc, adding_ans, cursor>>
             ELSE /\ adding_ans' = Some(ans)
                  /\ cursor' = 1
                  /\ pc' = IF r[1] THEN "transfer" ELSE "select_remaining"
    /\ UNCHANGED <<transactions_to_add, remaining, manual_ans, calls, error, returned>>
    /\ UNCHANGED <<manual_log, printed, previous_calls>>
    /\ run_frame
    /\ UNCHANGED sel_vars
    /\ UNCHANGED cat_vars
    /\ UNCHANGED tok_vars

\* the row whose category is not found is passed over and the loop goes on
transfer_row_skip_no_category ==
    /\ pc = "transfer"
    /\ cursor <= Len(transactions_to_add[1])
    /\ LET row == transactions[transactions_to_add[1][cursor]]
       IN  get_category_id(row.category_name[1], row.type[1]) = None
    /\ cursor' = cursor + 1
    /\ UNCHANGED <<transactions_to_add, remaining, adding_ans, manual_ans, pc, error, calls, returned>>
    /\ UNCHANGED <<manual_log, printed, previous_calls>>
    /\ run_frame
    /\ UNCHANGED sel_vars
    /\ UNCHANGED cat_vars
    /\ UNCHANGED tok_vars

\* _transfer_from_presets, one row: _create_payload_from_preset raises (the
\* category of the row's label is not found) and the exception leaves the
\* method
transfer_row_no_category ==
    /\ pc = "transfer"
    /\ cursor <= Len(transactions_to_add[1])
    /\ LET idx == transactions_to_add[1][cursor]
           made == create_payload_from_preset(idx, transactions[idx])
       IN  /\ made.raised # None
           /\ error' = made.raised
           /\ printed' = IF made.printed = None THEN printed
                         ELSE Append(printed, made.printed[1])
    /\ pc' = "raised"
    /\ UNCHANGED <<transactions_to_add, remaining, adding_ans, manual_ans, cursor, calls, returned>>
    /\ UNCHANGED <<manual_log, previous_calls>>
    /\ run_frame
    /\ UNCHANGED sel_vars
    /\ UNCHANGED cat_vars
    /\ UNCHANGED tok_vars

\* a failed request is passed over and the loop goes on with the next row
transfer_row_goes_on ==
    /\ pc = "transfer"
    /\ cursor <= Len(transactions_to_add[1])
    /\ LET idx == transactions_to_add[1][cursor]
           row == transactions[idx]
           category_id == get_category_id(row.category_name[1], row.type[1])
       IN  /\ category_id # None
           /\ \E failure \in add_transaction_outcomes :
                calls' = Append(calls,
                      [via |-> "preset", ok |-> failure = None, failure |-> failure,
                       chosen |-> None,
                       payload |-> create_payload(idx, category_id[1], row, row.note[1])])
    /\ cursor' = cursor + 1
    /\ UNCHANGED <<transactions_to_add, remaining, adding_ans, manual_ans, pc, error, returned>>
    /\ UNCHANGED <<manual_log, printed, previous_calls>>
    /\ run_frame
    /\ UNCHANGED sel_vars
    /\ UNCHANGED cat_vars
    /\ UNCHANGED tok_vars

\* _transfer_from_presets, one row: the payload is posted; the call returns
\* or the request fails and the failure leaves the method
transfer_row ==
    /\ pc = "transfer"
    /\ cursor <= Len(transactions_to_add[1])
    /\ LET idx == transactions_to_add[1][cursor]
           row == transactions[idx]
           category_id == get_category_id(row.category_name[1], row.type[1])
       IN  /\ category_id # None
           /\ \E failure \in add_transaction_outcomes :
                /\ calls' = Append(calls,
                      [via |-> "preset", ok |-> failure = None, failure |-> failure,
                       chosen |-> None,
                       payload |-> create_payload(idx, category_id[1], row, row.note[1])])
                /\ IF failure = None
                   THEN /\ cursor' = cursor + 1
                        /\ UNCHANGED <<pc, error>>
                   ELSE /\ error' = failure
                        /\ pc' = "raised"
                        /\ UNCHANGED cursor
    /\ UNCHANGED <<transactions_to_add, remaining, adding_ans, manual_ans, returned>>
    /\ UNCHANGED <<manual_log, printed, previous_calls>>
    /\ run_frame
    /\ UNCHANGED sel_vars
    /\ UNCHANGED cat_vars
    /\ UNCHANGED tok_vars

\* _transfer_from_presets returns
transfer_done ==
    /\ pc = "transfer"
    /\ cursor > Len(transactions_to_add[1])
    /\ pc' = "select_remaining"
    /\ UNCHANGED run_vars
    /\ run_frame
    /\ UNCHANGED sel_vars
    /\ UNCHANGED cat_vars
    /\ UNCHANGED tok_vars

\* lines 170-172: select the remaining rows; ui.promt_manual_entry asks
\* nothing and returns None when there is none
select_remaining ==
    /\ pc = "select_remaining"
    /\ remaining' = Some(remaining_index(transactions))
    /\ pc' = IF remaining'[1] = << >> THEN "return" ELSE "ask_manual"
    /\ UNCHANGED <<transactions_to_add, adding_ans, manual_ans, cursor, calls, error, returned>>
    /\ UNCHANGED <<manual_log, printed, previous_calls>>
    /\ run_frame
    /\ UNCHANGED sel_vars
    /\ UNCHANGED cat_vars
    /\ UNCHANGED tok_vars

\* ui.promt_manual_entry: one input at the (y/n) prompt
promt_manual_entry ==
    /\ pc = "ask_manual"
    /\ \E ans \in Inputs :
         LET r == yes_no(ans)
         IN  IF r = None
             THEN UNCHANGED <<pc, manual_ans, cursor>>
             ELSE /\ manual_ans' = Some(ans)
                  /\ cursor' = 1
                  /\ pc' = IF r[1] THEN "manual" ELSE "return"
    /\ UNCHANGED <<transactions_to_add, remaining, adding_ans, calls, error, returned>>
    /\ UNCHANGED <<manual_log, printed, previous_calls>>
    /\ run_frame
    /\ UNCHANGED sel_vars
    /\ UNCHANGED cat_vars
    /\ UNCHANGED tok_vars

\* what the lines of _fill_manually leave behind for one row: the type and
\* the category chosen and the note typed, each None when the call ended
\* before it was asked for, and how the call ended
LogEntry(idx, transaction_type, category, note, outcome) ==
    [idx |-> idx, transaction_type |-> transaction_type, category |-> category,
     note |-> note, outcome |-> outcome]

TypeInputs == {"s", "S", "e", "i", "d", "x", ""}

\* ui.choose_transaction_type on one input: Some(None) when it returns None,
\* Some(Some(type)) when it returns a type, None when the input is not valid
\* and the prompt is repeated
choose_transaction_type(inp) ==
    IF inp = "s" THEN Some(None)
    ELSE IF inp \in DOMAIN TRANSACTION_TYPES THEN Some(Some(TRANSACTION_TYPES[inp]))
    ELSE None

\* a skipped row ends the loop over the remaining rows
fill_manually_skip_ends_loop ==
    /\ pc = "manual"
    /\ cursor <= Len(remaining[1])
    /\ manual_log' = Append(manual_log,
          LogEntry(remaining[1][cursor], None, None, None, "returned"))
    /\ pc' = "return"
    /\ UNCHANGED <<transactions_to_add, remaining, adding_ans, manual_ans, cursor,
                   calls, error, returned>>
    /\ UNCHANGED <<printed, previous_calls>>
    /\ run_frame
    /\ UNCHANGED sel_vars
    /\ UNCHANGED cat_vars
    /\ UNCHANGED tok_vars

\* _fill_manually for one row, left at one of its two returns: 's' at the
\* type prompt, or a type and then no category
fill_manually_skip ==
    /\ pc = "manual"
    /\ cursor <= Len(remaining[1])
    /\ \E inp \in TypeInputs :
         LET transaction_type == choose_transaction_type(inp)
             idx == remaining[1][cursor]
         IN  /\ transaction_type # None
             /\ \/ /\ transaction_type[1] = None
                   /\ manual_log' = Append(manual_log,
                         LogEntry(idx, None, None, None, "returned"))
                \/ /\ transaction_type[1] # None
                   /\ None \in choose_category_outcomes(transaction_type[1][1])
                   /\ manual_log' = Append(manual_log,
                         LogEntry(idx, transaction_type[1], None, None, "returned"))
    /\ cursor' = cursor + 1
    /\ UNCHANGED <<transactions_to_add, remaining, adding_ans, manual_ans, calls, error, returned>>
    /\ UNCHANGED pc
    /\ UNCHANGED <<printed, previous_calls>>
    /\ run_frame
    /\ UNCHANGED sel_vars
    /\ UNCHANGED cat_vars
    /\ UNCHANGED tok_vars

\* _fill_manually for one row: a type, a category and a note are given and
\* the payload is posted
fill_manually_add ==
    /\ pc = "manual"
    /\ cursor <= Len(remaining[1])
    /\ \E inp \in TypeInputs, note \in Notes, failure \in add_transaction_outcomes :
         LET transaction_type == choose_transaction_type(inp)
         IN  /\ transaction_type # None
             /\ transaction_type[1] # None
             /\ \E category \in choose_category_outcomes(transaction_type[1][1]) \ {None} :
                  LET idx == remaining[1][cursor]
                      category_id == get_category_id(category[1], transaction_type[1][1])
                  IN  IF category_id = None
                      THEN /\ error' = Some("ValueError")
                           /\ pc' = "raised"
                           /\ manual_log' = Append(manual_log,
                                 LogEntry(idx, transaction_type[1], category, None, "raised"))
                           /\ UNCHANGED <<cursor, calls>>
                      ELSE /\ calls' = Append(calls,
                                 [via |-> "manual", ok |-> failure = None,
                                  failure |-> failure,
                                  chosen |-> Some(<<transaction_type[1][1], category[1]>>),
                                  payload |-> create_payload(idx, category_id[1],
                                                             transactions[idx], note)])
                           /\ IF failure = None
                              THEN /\ cursor' = cursor + 1
                                   /\ manual_log' = Append(manual_log,
                                         LogEntry(idx, transaction_type[1], category,
                                                  Some(note), "returned"))
                                   /\ UNCHANGED <<pc, error>>
                              ELSE /\ error' = failure
                                   /\ pc' = "raised"
                                   /\ manual_log' = Append(manual_log,
                                         LogEntry(idx, transaction_type[1], category,
                                                  Some(note), "raised"))
                                   /\ UNCHANGED cursor
    /\ UNCHANGED <<transactions_to_add, remaining, adding_ans, manual_ans, returned>>
    /\ UNCHANGED <<printed, previous_calls>>
    /\ run_frame
    /\ UNCHANGED sel_vars
    /\ UNCHANGED cat_vars
    /\ UNCHANGED tok_vars

\* _fill_manually for one row: a type is given and, in the category
\* selection, an input that str.isdigit accepts and int rejects; the
\* ValueError of int() leaves the method
fill_manually_raise ==
    /\ pc = "manual"
    /\ cursor <= Len(remaining[1])
    /\ \E inp \in TypeInputs, line \in SelectorInputs :
         LET transaction_type == choose_transaction_type(inp)
         IN  /\ transaction_type # None
             /\ transaction_type[1] # None
             /\ isdigit(line) /\ int(line) = None
             /\ manual_log' = Append(manual_log,
                   LogEntry(remaining[1][cursor], transaction_type[1], None, None, "raised"))
    /\ error' = Some("ValueError: invalid literal for int()")
    /\ pc' = "raised"
    /\ UNCHANGED <<transactions_to_add, remaining, adding_ans, manual_ans, cursor,
                   calls, returned>>
    /\ UNCHANGED <<printed, previous_calls>>
    /\ run_frame
    /\ UNCHANGED sel_vars
    /\ UNCHANGED cat_vars
    /\ UNCHANGED tok_vars

\* the loop over remaining is over
manual_done ==
    /\ pc = "manual"
    /\ cursor > Len(remaining[1])
    /\ pc' = "return"
    /\ UNCHANGED run_vars
    /\ run_frame
    /\ UNCHANGED sel_vars
    /\ UNCHANGED cat_vars
    /\ UNCHANGED tok_vars

\* line 176
return_remaining ==
    /\ pc = "return"
    /\ returned' = remaining
    /\ pc' = "done"
    /\ UNCHANGED <<transactions_to_add, remaining, adding_ans, manual_ans, cursor, calls, error>>
    /\ UNCHANGED <<manual_log, printed, previous_calls>>
    /\ run_frame
    /\ UNCHANGED sel_vars
    /\ UNCHANGED cat_vars
    /\ UNCHANGED tok_vars

Next ==
    \/ request_transactions
    \/ dedup_pass
    \/ preset_pass
    \/ select_to_add
    \/ prompt_adding
    \/ transfer_row_no_category
    \/ transfer_row
    \/ transfer_done
    \/ select_remaining
    \/ promt_manual_entry
    \/ fill_manually_skip
    \/ fill_manually_add
    \/ fill_manually_raise
    \/ manual_done
    \/ return_remaining

Spec == Init /\ [][Next]_vars

(***************************************************************************)
(* transfer_bank_transactions called again on the same MoneyMover, after a *)
(* run whose preset transfer was confirmed and which returned.  The ledger *)
(* then lists, next to whatever else it lists, the transactions the first  *)
(* run added, each with the amount and the date of its payload.            *)
(***************************************************************************)
\* the days of the year of the statements
Calendar ==
    { <<d, m, 2024>> : d \in 1..31, m \in 1..12 } \ { <<d, m, 2024>> : d \in 29..31, m \in {2} }

\* date.strftime("%Y-%m-%d") in add_transaction, of a date given by its ordinal
strftime(ordinal) == CHOOSE dt \in Calendar : Ordinal(dt) = ordinal

\* the entries of a ledger response for the calls of add_transaction that
\* returned: the amount (in thousandths) and the displayDate of each payload
added_transactions(made) ==
    LET ok(c) == c.ok
        added == SelectSeq(made, ok)
    IN  [n \in 1..Len(added) |->
            [amount |-> added[n].payload.amount * 10,
             displayDate |-> strftime(added[n].payload.date)]]

\* the method has returned and is called again: its locals are fresh, the
\* statement table is the one the first run left, columns included
run_again ==
    /\ op = "transfer_bank_transactions"
    /\ pc = "done"
    /\ previous_calls = None
    /\ adding_ans = Some("y")
    /\ previous_calls' = Some(calls)
    /\ transactions_to_add' = None
    /\ remaining' = None
    /\ adding_ans' = None
    /\ manual_ans' = None
    /\ cursor' = 1
    /\ calls' = << >>
    /\ returned' = None
    /\ manual_log' = << >>
    /\ pc' = "start_again"
    /\ UNCHANGED <<error, printed>>
    /\ run_frame
    /\ UNCHANGED sel_vars
    /\ UNCHANGED cat_vars
    /\ UNCHANGED tok_vars

\* MoneyMover.request_transactions in the second run: the ledger answers
\* with some listing that has the transactions added by the first run in it
request_transactions_again ==
    /\ pc = "start_again"
    /\ \E response \in Responses :
           ml_transactions' =
               format_transactions(response \o added_transactions(previous_calls[1]))
    /\ pc' = "requested"
    /\ UNCHANGED <<op, transactions, transaction_presets, report>>
    /\ UNCHANGED run_vars
    /\ UNCHANGED sel_vars
    /\ UNCHANGED cat_vars
    /\ UNCHANGED tok_vars

RerunNext == Next \/ run_again \/ request_transactions_again

SpecRerun == Init /\ [][RerunNext]_vars

(***************************************************************************)
(* MoneyLoverClient.__init__ up to the assignment of self._jwt_token: the  *)
(* cached access token.  Times are in seconds; a text is the sequence of   *)
(* its characters.                                                         *)
(***************************************************************************)
MaxTokenLen == 2

\* timedelta(days=5)
FiveDays == 5 * 86400

Now == 1000000

\* times of last modification on both sides of the limit, and one after now
Mtimes == { Now - (6 * 86400), Now - (FiveDays + 1), Now - FiveDays,
            Now - (FiveDays - 1), Now - (4 * 86400), Now, Now + 60 }

Newline == "\n"

TokenChars == {"t", " ", Newline}

\* the contents the token file can have
TokenTexts == SeqsUpTo(TokenChars, MaxTokenLen)

\* the access tokens the server hands out
NewTokens == { << "n" >>, << "n", "t" >> }

IsSpace(ch) == ch \in {" ", Newline}

RECURSIVE lstrip(_)
lstrip(str) ==
    IF str # << >> /\ IsSpace(Head(str)) THEN lstrip(Tail(str)) ELSE str

RECURSIVE rstrip(_)
rstrip(str) ==
    IF str # << >> /\ IsSpace(str[Len(str)])
    THEN rstrip(SubSeq(str, 1, Len(str) - 1))
    ELSE str

\* str.strip
strip(str) == rstrip(lstrip(str))

\* a token file as old as the limit still counts as valid
is_token_valid_inclusive(file, days) ==
    IF file = None THEN None
    ELSE Some(clock - file[1].mtime <= days * 86400)

\* MoneyLoverClient._is_token_valid: None stands for the FileNotFoundError
\* of os.path.getmtime
is_token_valid(file, days) ==
    IF file = None THEN None
    ELSE Some(clock - file[1].mtime < days * 86400)

\* MoneyLoverClient._load_access_token: None or Some(the token)
load_access_token(file) ==
    LET valid == is_token_valid(file, 5)
    IN  IF valid = None THEN None
        ELSE IF valid[1] THEN Some(strip(file[1].text))
        ELSE None

TokenInit ==
    /\ SelOff
    /\ MMOff
    /\ CatOff
    /\ access_token_file \in
           {None} \cup { Some([mtime |-> m, text |-> t]) : m \in Mtimes, t \in TokenTexts }
    /\ clock = Now
    /\ access_token = None
    /\ jwt_token = None
    /\ login_calls = 0
    /\ tok_pc = "load"

token_frame ==
    /\ UNCHANGED clock
    /\ UNCHANGED cat_vars
    /\ UNCHANGED mm_vars
    /\ UNCHANGED sel_vars

\* line 70: access_token = self._load_access_token()
load_token ==
    /\ tok_pc = "load"
    /\ access_token' = load_access_token(access_token_file)
    /\ tok_pc' = "loaded"
    /\ UNCHANGED <<access_token_file, jwt_token, login_calls>>
    /\ token_frame

\* lines 72-80: no token was loaded; _get_token logs in and the token it
\* returns is saved, or the login fails and its exception leaves __init__
login_and_save ==
    /\ tok_pc = "loaded"
    /\ access_token = None
    /\ login_calls' = login_calls + 1
    /\ \/ \E token \in NewTokens :
            /\ access_token' = Some(token)
            /\ access_token_file' = Some([mtime |-> clock, text |-> token])
            /\ tok_pc' = "logged_in"
       \/ /\ tok_pc' = "raised"
          /\ UNCHANGED <<access_token, access_token_file>>
    /\ UNCHANGED jwt_token
    /\ token_frame

\* line 82: self._jwt_token = access_token
set_jwt_token ==
    /\ \/ tok_pc = "loaded" /\ access_token # None
       \/ tok_pc = "logged_in"
    /\ jwt_token' = access_token
    /\ tok_pc' = "done"
    /\ UNCHANGED <<access_token_file, access_token, login_calls>>
    /\ token_frame

TokenNext == load_token \/ login_and_save \/ set_jwt_token

SpecToken == TokenInit /\ [][TokenNext]_vars

(***************************************************************************)
(* Properties of the Statement Selector.                                   *)
(***************************************************************************)
Abs(n) == IF n < 0 THEN -n ELSE n

\* no entry of a sequence occurs twice in it
NoDuplicates(names) ==
    \A m, n \in 1..Len(names) : m # n => names[m] # names[n]

MatchedIdx == { i \in 1..Len(file_match) : file_match[i] # None }

EndOf(i) == file_match[i][1].end

\* today - end_date in calendar days (negative when the end date is after today)
CalDiff(end_date) == Ordinal(today.date) - Ordinal(end_date)

DistinctEnds == \A i, j \in MatchedIdx : i # j => EndOf(i) # EndOf(j)

NoFutureEnd == \A i \in MatchedIdx : CalDiff(EndOf(i)) >= 0

\* the first index, among the matched entries in S, of smallest signed difference
FirstSmallest(S) ==
    CHOOSE k \in S :
        /\ \A i \in S : CalDiff(EndOf(k)) <= CalDiff(EndOf(i))
        /\ \A i \in S : (i < k) => CalDiff(EndOf(k)) < CalDiff(EndOf(i))

\* C8 as stated: with distinct end dates, the returned file minimises
\* |today - end_date| in days, also when some end date is after today.
C8_ClosestAbsolute ==
    (sel_pc = "returned" /\ DistinctEnds) =>
        \A i \in MatchedIdx :
            Abs(CalDiff(recent_file[1].end)) <= Abs(CalDiff(EndOf(i)))

\* C8 amended: with distinct end dates the returned file is the one with the
\* latest end date; it minimises |today - end_date| in days when no end date
\* is after today.
C8_LatestEndClosestIfNoFuture ==
    (sel_pc = "returned" /\ DistinctEnds) =>
        /\ \A i \in MatchedIdx : Ordinal(recent_file[1].end) >= Ordinal(EndOf(i))
        /\ NoFutureEnd =>
             \A i \in MatchedIdx :
                 Abs(CalDiff(recent_file[1].end)) <= Abs(CalDiff(EndOf(i)))

\* several files with distinct past end dates, the returned one not scanned first
C8_Witness ==
    /\ sel_pc = "returned"
    /\ DistinctEnds /\ NoFutureEnd
    /\ Cardinality(MatchedIdx) >= 3
    /\ file_match[1] # None /\ recent_file # file_match[1]

\* C9: at every point of the scan the current choice is the first entry, in
\* iteration order, of smallest signed days_diff among the entries scanned so
\* far (a later entry replaces it only when strictly smaller); so the file
\* returned is the first of smallest days_diff, and with no end date after
\* today it has the latest end date.
C9_FirstSmallestSigned ==
    LET scanned == { i \in MatchedIdx : i < sel_i }
    IN  /\ scanned = {} => recent_file = None
        /\ scanned # {} =>
             /\ recent_file = file_match[FirstSmallest(scanned)]
             /\ ~closest_days_diff.inf
             /\ closest_days_diff.v = CalDiff(recent_file[1].end)
        /\ (sel_pc = "returned" /\ NoFutureEnd) =>
             \A i \in MatchedIdx : Ordinal(recent_file[1].end) >= Ordinal(EndOf(i))

\* a tie: two files of equal days_diff, the one scanned first is returned
C9_Witness ==
    /\ sel_pc = "returned"
    /\ \E i, j \in MatchedIdx :
         /\ i < j
         /\ EndOf(i) = EndOf(j)
         /\ recent_file = file_match[i]
         /\ file_match[i][1].start # file_match[j][1].start

\* C10: whenever a file is chosen, date_range is the (start_date, end_date)
\* of exactly that file, at every point of the scan and at the return, for
\* every order of the candidates; before any choice it is unset.
C10_DateRangeOfReturnedFile ==
    /\ recent_file = None => date_range = None
    /\ recent_file # None =>
         date_range = Some(<<recent_file[1].start, recent_file[1].end>>)

\* the returned file is not the last one scanned, and the last one scanned
\* carries another range
C10_Witness ==
    /\ sel_pc = "returned"
    /\ Len(file_match) >= 2
    /\ file_match[Len(file_match)] # None
    /\ file_match[Len(file_match)] # recent_file
    /\ date_range = Some(<<recent_file[1].start, recent_file[1].end>>)

\* C11: when no entry of the candidate list is a match (the list is empty or
\* every entry is a non-match), the selector never returns a file, it ends
\* with the FileNotFoundError, and date_range stays unset; it raises in no
\* other case.
C11_NoMatchRaisesNotFound ==
    /\ MatchedIdx = {} =>
         /\ sel_pc # "returned"
         /\ recent_file = None
         /\ date_range = None
    /\ (sel_pc \in {"returned", "raised"}) =>
         (sel_pc = "raised" <=> MatchedIdx = {})

\* the scan of a list of several non-matching names has ended with the error
C11_Witness ==
    /\ sel_pc = "raised"
    /\ Len(file_match) >= 2
    /\ MatchedIdx = {}
    /\ date_range = None

\* the scan of an empty list has ended with the error
C11_WitnessEmpty ==
    /\ sel_pc = "raised"
    /\ file_match = << >>

(***************************************************************************)
(* Properties of the two passes.                                           *)
(***************************************************************************)
DedupDone == pc \notin {"off", "start", "requested"}

PresetDone == DedupDone /\ pc # "checked"

Rows == 1..Len(transactions)

\* the statement as it was parsed: the rows without the columns of the passes
Statement(df) == [i \in 1..Len(df) |-> NewRow(df[i].date, df[i].name, df[i].amount)]

PresetColumns(df) ==
    [i \in 1..Len(df) |-> <<df[i].has_preset, df[i].note, df[i].category_name, df[i].type>>]

InMlColumn(df) == [i \in 1..Len(df) |-> df[i].is_in_ml]

\* every (field, pattern) condition of the rule succeeds on the row
AllConditionsSucceed(row, preset) ==
    \A c \in 1..Len(preset.conditions) :
        re_match(preset.conditions[c][2], get_str(row, preset.conditions[c][1]))

MatchingRules(row) ==
    { k \in 1..Len(transaction_presets) : AllConditionsSucceed(row, transaction_presets[k]) }

Least(S) == CHOOSE k \in S : \A m \in S : k <= m

C6_FirstMatchWins ==
    PresetDone =>
        \A i \in Rows :
            LET row == transactions[i]
                M == MatchingRules(row)
            IN  IF M = {}
                THEN /\ row.has_preset = Some(FALSE)
                     /\ row.note = None /\ row.category_name = None /\ row.type = None
                ELSE LET label == transaction_presets[Least(M)].label
                     IN  /\ row.has_preset = Some(TRUE)
                         /\ row.note = Some(label.note)
                         /\ row.category_name = Some(label.category_name)
                         /\ row.type = Some(label.type)

\* two rules with different labels both match a row
C6_Witness ==
    /\ PresetDone
    /\ \E i \in Rows :
         /\ Cardinality(MatchingRules(transactions[i])) >= 2
         /\ \E k, m \in MatchingRules(transactions[i]) :
               transaction_presets[k].label # transaction_presets[m].label

\* C7: a rule matches a row iff every one of its (field, pattern) conditions
\* succeeds on the str of the row's field, a field the row lacks counting as
\* the empty string; a row is recognised iff such a rule is in the list; and
\* no step changes the rule list or the statement's own columns.
C7_RuleMatchesIffAllConditions ==
    /\ [](PresetDone =>
            \A i \in Rows :
                /\ \A k \in 1..Len(transaction_presets) :
                       is_preset_matched(transactions[i], transaction_presets[k])
                         = AllConditionsSucceed(transactions[i], transaction_presets[k])
                /\ transactions[i].has_preset = Some(MatchingRules(transactions[i]) # {}))
    /\ [][/\ transaction_presets' = transaction_presets
          /\ Statement(transactions') = Statement(transactions)]_vars

\* a rule whose first condition succeeds and whose second fails, and a rule
\* that matches through a condition on a field the row lacks
C7_Witness ==
    /\ PresetDone
    /\ \E i \in Rows : \E k \in 1..Len(transaction_presets) :
         LET conds == transaction_presets[k].conditions
         IN  /\ Len(conds) = 2
             /\ re_match(conds[1][2], get_str(transactions[i], conds[1][1]))
             /\ ~re_match(conds[2][2], get_str(transactions[i], conds[2][1]))
             /\ transactions[i].has_preset = Some(FALSE)
    /\ \E i \in Rows : \E k \in 1..Len(transaction_presets) :
         LET conds == transaction_presets[k].conditions
         IN  /\ Len(conds) = 2
             /\ conds[1][1] \notin {"name", "amount"}
             /\ k \in MatchingRules(transactions[i])
             /\ transactions[i].has_preset = Some(TRUE)

(***************************************************************************)
(* Properties of transfer_bank_transactions.                               *)
(***************************************************************************)
Members(opt) == IF opt = None THEN {} ELSE { opt[1][n] : n \in 1..Len(opt[1]) }

InLedger(i) == transactions[i].is_in_ml = Some(TRUE)

HasPreset(i) == transactions[i].has_preset = Some(TRUE)

AutoMatched(i) ==
    /\ transactions_to_add # None
    /\ \E n \in 1..Len(transactions_to_add[1]) : transactions_to_add[1][n] = i

RequiresManualEntry(i) ==
    /\ remaining # None
    /\ \E n \in 1..Len(remaining[1]) : remaining[1][n] = i

CallsVia(via) == { n \in 1..Len(calls) : calls[n].via = via }

\* C2: once both selections of the transfer are made, every row is in exactly
\* one of InLedger, AutoMatched (the rows to add) and RequiresManualEntry (the
\* remaining rows); InLedger is is_in_ml, AutoMatched is has_preset without
\* is_in_ml, RequiresManualEntry is neither flag; and print_report prints the
\* same class for the row.
C2_OneClassification ==
    remaining # None =>
        \A i \in Rows :
            /\ Cardinality({ c \in {"InLedger", "AutoMatched", "RequiresManualEntry"} :
                   \/ c = "InLedger" /\ InLedger(i)
                   \/ c = "AutoMatched" /\ AutoMatched(i)
                   \/ c = "RequiresManualEntry" /\ RequiresManualEntry(i) }) = 1
            /\ AutoMatched(i) <=> (~InLedger(i) /\ HasPreset(i))
            /\ RequiresManualEntry(i) <=> (~InLedger(i) /\ ~HasPreset(i))
            /\ print_report(transactions)[i] =
                 (IF InLedger(i) THEN "In MoneyLover"
                  ELSE IF AutoMatched(i) THEN "Recognized"
                  ELSE "Requires manual entry")

\* a row with both flags set, classified InLedger, next to a remaining row
C2_Witness ==
    /\ remaining # None
    /\ \E i \in Rows : InLedger(i) /\ HasPreset(i)
    /\ \E i \in Rows : RequiresManualEntry(i)

\* C3: no call of add_transaction, from the preset transfer or from the
\* manual entry, is for a row that the dedup pass flagged is_in_ml, a row
\* with a matching preset included.
C3_InLedgerNeverSubmitted ==
    \A n \in 1..Len(calls) :
        /\ calls[n].payload.idx \in Rows
        /\ transactions[calls[n].payload.idx].is_in_ml = Some(FALSE)

\* the run ended with a call made, and a row in the ledger with a matching
\* preset was left out
C3_Witness ==
    /\ pc = "done"
    /\ calls # << >>
    /\ \E i \in Rows :
         /\ InLedger(i) /\ HasPreset(i)
         /\ \A n \in 1..Len(calls) : calls[n].payload.idx # i

\* C4: a call for a preset row is made only after the answer 'y' to the adding
\* prompt, and a call for a manually entered row only after the answer 'y' to
\* the manual-entry prompt, with a transaction type and a category chosen for
\* that row; after the answer 'n', or with no answer, no call of that group
\* is made.
C4_NoCallWithoutConfirmation ==
    /\ adding_ans \in {None, Some("y"), Some("n")}
    /\ manual_ans \in {None, Some("y"), Some("n")}
    /\ \A n \in CallsVia("preset") :
         /\ adding_ans = Some("y")
         /\ AutoMatched(calls[n].payload.idx)
    /\ \A n \in CallsVia("manual") :
         /\ manual_ans = Some("y")
         /\ RequiresManualEntry(calls[n].payload.idx)
         /\ calls[n].chosen # None
         /\ calls[n].chosen[1][1] \in { TRANSACTION_TYPES[key] : key \in DOMAIN TRANSACTION_TYPES }
         /\ Some(calls[n].chosen[1][2]) \in choose_category_outcomes(calls[n].chosen[1][1])
    /\ adding_ans # Some("y") => CallsVia("preset") = {}
    /\ manual_ans # Some("y") => CallsVia("manual") = {}
    /\ CallsVia("preset") \cup CallsVia("manual") = 1..Len(calls)

\* both prompts were answered 'y' and a call of each kind was made
C4_Witness ==
    /\ pc = "done"
    /\ CallsVia("preset") # {}
    /\ CallsVia("manual") # {}

\* the adding prompt was answered 'n': the preset rows were not submitted
C4_WitnessDeclined ==
    /\ pc = "done"
    /\ adding_ans = Some("n")
    /\ Members(transactions_to_add) # {}
    /\ CallsVia("preset") = {}

\* C12 as stated: over the whole run, calls of both kinds together, no row is
\* submitted after a row with a larger index.
C12_AscendingAcrossRun ==
    \A m, n \in 1..Len(calls) :
        m < n => calls[m].payload.idx < calls[n].payload.idx

\* C12 amended: each call submits one row; the preset transfer submits the
\* rows to add in ascending row-index order, none passed over; the manual
\* entry submits remaining rows in ascending row-index order; and every call
\* of the preset transfer comes before every call of the manual entry.
C12_AscendingWithinEachPass ==
    /\ \A m, n \in 1..Len(calls) :
         (m < n /\ calls[m].via = calls[n].via) =>
             calls[m].payload.idx < calls[n].payload.idx
    /\ \A m, n \in 1..Len(calls) :
         (m < n /\ calls[m].via = "manual") => calls[n].via = "manual"
    /\ \A n \in CallsVia("preset") :
         /\ n <= Len(transactions_to_add[1])
         /\ calls[n].payload.idx = transactions_to_add[1][n]

\* two rows were submitted by the same pass
C12_Witness ==
    /\ pc = "done"
    /\ \E m, n \in 1..Len(calls) :
         /\ m < n
         /\ calls[m].via = "preset" /\ calls[n].via = "preset"
         /\ calls[m].ok /\ calls[n].ok

\* the category of a row's label resolves to no id
Unresolvable(i) ==
    get_category_id(transactions[i].category_name[1], transactions[i].type[1]) = None

\* C13: the preset transfer makes no call for a row to add whose category
\* name matches no category of that name, type and the active wallet, and no
\* call for any row to add after it; the pass gets past its loop only when
\* every row to add was submitted; and when it stops on such a row it ends
\* with the ValueError at that row, the manual entry not started.
C13_NoCategoryAbortsTransfer ==
    /\ \A n \in CallsVia("preset") :
         /\ ~Unresolvable(calls[n].payload.idx)
         /\ \A i \in Members(transactions_to_add) :
              Unresolvable(i) => calls[n].payload.idx < i
    /\ (adding_ans = Some("y")
          /\ pc \in {"select_remaining", "ask_manual", "manual", "return", "done"}) =>
         \A i \in Members(transactions_to_add) :
             /\ ~Unresolvable(i)
             /\ \E n \in CallsVia("preset") : calls[n].payload.idx = i /\ calls[n].ok
    /\ error = Some("ValueError") =>
         /\ pc = "raised"
         /\ returned = None
         /\ remaining = None
         /\ CallsVia("manual") = {}
         /\ Unresolvable(transactions_to_add[1][cursor])
         /\ Len(calls) = cursor - 1

\* the first of two rows to add has no category id: the pass ended there and
\* the second row was not submitted
C13_Witness ==
    /\ error = Some("ValueError")
    /\ cursor = 1
    /\ Len(transactions_to_add[1]) = 2
    /\ ~Unresolvable(transactions_to_add[1][2])
    /\ calls = << >>

\* a row was submitted, then the next row to add had no category id
C13_WitnessAfterCall ==
    /\ error = Some("ValueError")
    /\ cursor = 2
    /\ Len(calls) = 1

\* the calls of add_transaction made for row i
CallsFor(i) == { n \in 1..Len(calls) : calls[n].payload.idx = i }

\* the calls of _fill_manually that went through to the note
Resolved == { k \in 1..Len(manual_log) : manual_log[k].note # None }

\* the calls of _fill_manually that returned at the type prompt or at the
\* category prompt
Skipped ==
    { k \in 1..Len(manual_log) :
        manual_log[k].outcome = "returned" /\ manual_log[k].category = None }

\* C15: for a row resolved by manual entry (a type, a category and a note
\* were given) exactly one call of add_transaction is made in the run, with
\* the active wallet, the id resolved from the chosen category name and
\* type, the row's own amount and date, and the note as typed; and every
\* call of the manual entry is for such a row.
C15_ManualPayloadRoundTrip ==
    /\ \A k \in Resolved :
         LET entry == manual_log[k]
             row == transactions[entry.idx]
         IN  /\ Cardinality(CallsFor(entry.idx)) = 1
             /\ \A n \in CallsFor(entry.idx) :
                  /\ calls[n].via = "manual"
                  /\ calls[n].payload.wallet_id = active_wallet_id
                  /\ Some(calls[n].payload.category_id) =
                       category_lookup(Categories, entry.category[1],
                                       entry.transaction_type[1]).id
                  /\ calls[n].payload.amount = row.amount
                  /\ calls[n].payload.date = row.date
                  /\ calls[n].payload.note = entry.note[1]
    /\ \A n \in CallsVia("manual") :
         \E k \in Resolved : manual_log[k].idx = calls[n].payload.idx

\* the run ended after a row was entered by hand under a sub-category, with
\* a non-empty note, and the call returned
C15_Witness ==
    /\ pc = "done"
    /\ \E k \in Resolved :
         /\ manual_log[k].category = Some("Groceries")
         /\ manual_log[k].note = Some("lunch")
         /\ \E n \in CallsFor(manual_log[k].idx) : calls[n].ok

\* C16: _fill_manually is called for the remaining rows only, which are
\* neither is_in_ml nor has_preset, one after the other in their order; for
\* a row left at the type prompt ('s') or at the category prompt (no
\* category) no call of add_transaction is made, the row stays among the
\* remaining rows without a label, and the loop takes the next remaining row:
\* a run that asked for manual entry and did not raise has called
\* _fill_manually for every remaining row.
C16_SkipLeavesRowUnresolved ==
    /\ manual_log # << >> => manual_ans = Some("y")
    /\ \A k \in 1..Len(manual_log) :
         /\ k <= Len(remaining[1])
         /\ manual_log[k].idx = remaining[1][k]
         /\ ~InLedger(manual_log[k].idx)
         /\ ~HasPreset(manual_log[k].idx)
    /\ \A k \in Skipped :
         /\ CallsFor(manual_log[k].idx) = {}
         /\ RequiresManualEntry(manual_log[k].idx)
         /\ transactions[manual_log[k].idx].category_name = None
         /\ returned # None => manual_log[k].idx \in Members(returned)
    /\ pc = "manual" => Len(manual_log) = cursor - 1
    /\ (manual_ans = Some("y") /\ pc \in {"return", "done"}) =>
         Len(manual_log) = Len(remaining[1])

\* the first remaining row was skipped at the type prompt and the next one
\* was entered
C16_Witness ==
    /\ pc = "done"
    /\ Len(manual_log) = 2
    /\ 1 \in Skipped /\ manual_log[1].transaction_type = None
    /\ 2 \in Resolved
    /\ CallsFor(manual_log[2].idx) # {}

\* the first remaining row was skipped at the category prompt and the next
\* one was entered
C16_WitnessCategory ==
    /\ pc = "done"
    /\ Len(manual_log) = 2
    /\ 1 \in Skipped /\ manual_log[1].transaction_type # None
    /\ 2 \in Resolved

\* C17 as stated: the rows returned are exactly the rows that were not
\* transferred and still require manual entry; a row for which a call of
\* add_transaction returned during the run, from a preset or from the manual
\* entry, is not among them.
C17_ReturnedNotTransferred ==
    returned # None =>
        \A i \in Rows :
            i \in Members(returned) <=>
                /\ ~InLedger(i)
                /\ ~HasPreset(i)
                /\ ~\E n \in CallsFor(i) : calls[n].ok

\* C24 as stated: when the preset transfer ends because no category id is
\* found for the category name of a row, the name of that category has been
\* printed, and the error that leaves is the one the resolution raised.
C24_PrintsNameBeforeReraise ==
    (pc = "raised" /\ manual_ans = None /\ cursor <= Len(transactions_to_add[1])
     /\ Unresolvable(transactions_to_add[1][cursor])) =>
        LET row == transactions[transactions_to_add[1][cursor]]
        IN  /\ error = category_lookup(Categories, row.category_name[1], row.type[1]).raised
            /\ printed = << row.category_name[1] >>

\* what holds of it: the error of the resolution leaves unchanged, and
\* nothing is printed
C24_LookupErrorLeavesUnprinted ==
    /\ printed = << >>
    /\ (pc = "raised" /\ manual_ans = None /\ cursor <= Len(transactions_to_add[1])
        /\ Unresolvable(transactions_to_add[1][cursor])) =>
           LET row == transactions[transactions_to_add[1][cursor]]
           IN  /\ error = Some("ValueError")
               /\ error = category_lookup(Categories, row.category_name[1], row.type[1]).raised

\* C22: a call of add_transaction that fails (a timeout, a status that is
\* not a success, a non-zero error code) is the last call of the run: its
\* failure is the error that leaves transfer_bank_transactions, which returns
\* nothing; the row of the failed call has no other call; every earlier call
\* returned; and no call once made is ever taken back or altered.
C22_RemoteFailureEndsTransfer ==
    /\ [](\A n \in 1..Len(calls) :
            /\ calls[n].failure \in add_transaction_outcomes
            /\ calls[n].failure # None =>
                 /\ n = Len(calls)
                 /\ error = calls[n].failure
                 /\ pc = "raised"
                 /\ returned = None
                 /\ \A m \in 1..Len(calls) :
                      calls[m].payload.idx = calls[n].payload.idx => m = n
                 /\ \A m \in 1..(n - 1) : calls[m].ok)
    /\ [][/\ Len(calls') >= Len(calls)
          /\ \A n \in 1..Len(calls) : calls'[n] = calls[n]
          /\ (error # None /\ error[1] \in post_request_failures) =>
                UNCHANGED <<calls, error, pc>>]_vars

\* the first request of the preset transfer failed while another row was
\* still to be added
C22_Witness ==
    /\ pc = "raised"
    /\ Len(calls) = 1
    /\ calls[1].via = "preset" /\ calls[1].failure = Some("Timeout")
    /\ Len(transactions_to_add[1]) = 2

\* the second request of the preset transfer failed after the first had
\* added its row
C22_WitnessAfterAdded ==
    /\ pc = "raised"
    /\ Len(calls) = 2
    /\ calls[1].via = "preset" /\ calls[1].ok
    /\ calls[2].via = "preset" /\ calls[2].failure = Some("MoneyLoverException")

\* C26: in one call of transfer_bank_transactions no row has two calls of
\* add_transaction; the rows of the preset transfer and the rows offered for
\* manual entry have no row in common; each of the two tables lists a row
\* once and is gone through once, in its order: the calls of the preset
\* transfer are for the first rows to add, one each, and the manual entry
\* was offered for the first remaining rows, once each.
C26_AtMostOneCallPerRow ==
    /\ \A m, n \in 1..Len(calls) :
         calls[m].payload.idx = calls[n].payload.idx => m = n
    /\ transactions_to_add # None =>
         /\ NoDuplicates(transactions_to_add[1])
         /\ \A n \in 1..Len(calls) :
              calls[n].via = "preset" =>
                  (n <= Len(transactions_to_add[1])
                   /\ calls[n].payload.idx = transactions_to_add[1][n])
    /\ remaining # None =>
         /\ NoDuplicates(remaining[1])
         /\ Len(manual_log) <= Len(remaining[1])
         /\ \A k \in 1..Len(manual_log) : manual_log[k].idx = remaining[1][k]
         /\ \A n \in 1..Len(calls) :
              calls[n].via = "manual" =>
                  \E k \in 1..Len(manual_log) : manual_log[k].idx = calls[n].payload.idx
    /\ (transactions_to_add # None /\ remaining # None) =>
         \A j \in 1..Len(transactions_to_add[1]), k \in 1..Len(remaining[1]) :
             transactions_to_add[1][j] # remaining[1][k]
    /\ remaining = None => \A n \in 1..Len(calls) : calls[n].via = "preset"

\* one row was submitted by the preset transfer and another was entered by
\* hand, and the method has returned
C26_Witness ==
    /\ pc = "done"
    /\ Len(calls) = 2
    /\ calls[1].via = "preset"
    /\ calls[2].via = "manual"
    /\ Len(transactions_to_add[1]) = 1
    /\ Len(remaining[1]) = 1

\* the rows the preset transfer of the run before submitted
SubmittedBefore ==
    { previous_calls[1][n].payload.idx :
        n \in { m \in 1..Len(previous_calls[1]) : previous_calls[1][m].via = "preset" } }

\* C25: in a run that follows a run whose preset transfer submitted every
\* rule-matched row with success, the ledger listing the added transactions
\* with their amounts and dates: once the dedup pass of the second run is
\* done every row so submitted is flagged InLedger, none of them is among
\* the rows to add or the rows offered for manual entry, and the second run
\* makes no call for any of them.
C25_SecondRunSubmitsNoPresetRowAgain ==
    previous_calls # None =>
        /\ \A n \in 1..Len(previous_calls[1]) : previous_calls[1][n].ok
        /\ \A i \in 1..Len(transactions) :
             (HasPreset(i) /\ pc = "start_again" /\ ~InLedger(i)) => i \in SubmittedBefore
        /\ \A i \in SubmittedBefore :
             /\ pc \notin {"start_again", "requested"} => InLedger(i)
             /\ transactions_to_add # None =>
                  \A k \in 1..Len(transactions_to_add[1]) : transactions_to_add[1][k] # i
             /\ remaining # None =>
                  \A k \in 1..Len(remaining[1]) : remaining[1][k] # i
             /\ \A m \in 1..Len(calls) : calls[m].payload.idx # i

\* the first run submitted two rule-matched rows; the ledger lists these two
\* transactions and nothing else, and the second run has returned with no
\* row left
C25_Witness ==
    /\ previous_calls # None
    /\ Len(previous_calls[1]) = 2
    /\ \A n \in 1..2 : previous_calls[1][n].via = "preset"
    /\ Len(ml_transactions) = 2
    /\ pc = "done"
    /\ returned = Some(<< >>)

\* the second run has made a call, for a row left by the first and entered
\* by hand
C25_WitnessManual ==
    /\ previous_calls # None
    /\ SubmittedBefore # {}
    /\ calls # << >>

(***************************************************************************)
(* Properties of _get_category_id.                                         *)
(***************************************************************************)
\* the rows of the categories file that match the query in name, type and
\* the active wallet
Hits ==
    { k \in 1..Len(categories_file) :
        /\ categories_file[k].name = query.category_name
        /\ categories_file[k].type = query.category_type
        /\ categories_file[k].wallet_id = active_wallet_id }

\* C14: the resolution raises (ValueError) exactly when no category matches
\* name, type and active wallet; with more than one match it does not raise,
\* it prints the warning (and only then) and returns the id of the first
\* matching row in file order; every id it returns is that of a row matching
\* all three.
C14_AmbiguousReturnsFirst ==
    looked_up # None =>
        LET r == looked_up[1]
        IN  /\ (r.raised # None) <=> (Hits = {})
            /\ (r.raised # None) => (r.raised = Some("ValueError") /\ r.id = None)
            /\ (r.printed # None) <=> (Cardinality(Hits) > 1)
            /\ (r.printed # None) => r.printed = Some(Cardinality(Hits))
            /\ Hits # {} =>
                 /\ r.raised = None
                 /\ r.id = Some(categories_file[Least(Hits)].id)
            /\ r.id # None =>
                 \A k \in 1..Len(categories_file) :
                     categories_file[k].id = r.id[1] => k \in Hits

\* two rows match, a row of the same name and type in another wallet comes
\* before them, the call printed the warning and returned an id
C14_Witness ==
    /\ looked_up # None
    /\ looked_up[1].printed = Some(2)
    /\ looked_up[1].id # None
    /\ 1 \notin Hits
    /\ categories_file[1].name = query.category_name
    /\ categories_file[1].type = query.category_type

(***************************************************************************)
(* Properties of CategorySelector.                                         *)
(***************************************************************************)
Parents == parent_categories(self_categories)

\* the input is the index of one of the n entries listed
ValidIndex(inp, n) == isdigit(inp) /\ int(inp) # None /\ int(inp)[1] < n

\* the rows of the input table that are children of the top-level row named p
ChildRows(name) ==
    { k \in 1..Len(cs_input) :
        \E m \in 1..Len(cs_input) :
            /\ cs_input[m].name = name
            /\ cs_input[m].parent = None
            /\ cs_input[k].parent = Some(cs_input[m].id) }

\* C18: for every parent the selector lists, _get_children gives no name
\* twice, and so does the list a sub-category is picked from, whatever rows
\* the input table repeats.
C18_ChildrenNoDuplicateNames ==
    /\ \A m \in 1..Len(Parents) :
         NoDuplicates(get_children(self_categories, Parents[m].name))
    /\ subcategories # None => NoDuplicates(subcategories[1])

\* the input table has two child rows of the same name under the parent
\* whose children are listed
C18_Witness ==
    /\ cs_pc = "ChoosingChild"
    /\ \E k, m \in ChildRows(selected_category[1][1]) :
         k # m /\ cs_input[k].name = cs_input[m].name
    /\ \E n \in 1..Len(subcategories[1]) :
         \E k \in ChildRows(selected_category[1][1]) :
             cs_input[k].name = subcategories[1][n]

\* C19 as stated: run() ends only by returning, with a name (Selected) or
\* with None (Skipped), never otherwise; it returns None exactly when the
\* skip signal is given at the parent prompt; the skip signal changes nothing
\* at the sub-category prompt; and the index of a parent without children
\* ends it at once with that parent.
C19_SelectedOrSkipped ==
    /\ [](cs_pc \in {"off", "ChoosingParent", "ChoosingChild", "returned"})
    /\ [](cs_pc = "returned" =>
            /\ selected_category # None
            /\ selected_category[1] # None =>
                 selected_category[1][1] \in selectable_names(cs_input))
    /\ [][(cs_pc # "returned" /\ cs_pc' = "returned") =>
            ((selected_category' = Some(None)) <=>
                (cs_pc = "ChoosingParent" /\ ~isdigit(user_input'[1])
                 /\ lower(user_input'[1]) = << "s" >>))]_vars
    /\ [][(cs_pc = "ChoosingChild" /\ lower(user_input'[1]) = << "s" >>) =>
            UNCHANGED <<cs_pc, selected_category, subcategories>>]_vars
    /\ [][(cs_pc = "ChoosingParent" /\ ValidIndex(user_input'[1], Len(Parents))) =>
            LET name == Parents[int(user_input'[1])[1] + 1].name
            IN  ChildRows(name) = {} =>
                    (cs_pc' = "returned" /\ selected_category' = Some(Some(name)))]_vars

\* what holds of run() apart from the failing int(): it raises only on an
\* input that str.isdigit accepts and int rejects
C19_RaisesOnlyOnNonDecimalDigit ==
    /\ [][cs_pc' = "raised" =>
            (cs_pc # "raised" => (isdigit(user_input'[1]) /\ int(user_input'[1]) = None))]_vars
    /\ [](cs_pc = "raised" => user_input = Some(<< Superscript2 >>))
    /\ [](cs_pc = "returned" =>
            /\ selected_category # None
            /\ selected_category[1] # None =>
                 selected_category[1][1] \in selectable_names(cs_input))

\* C20: the sub-category prompt is reached only for a picked parent that has
\* children, which it lists; there the index of a listed child ends run()
\* with that child, a child row of the picked parent; the empty input ends
\* it with the picked parent; 'b' ends nothing and leads back to the parent
\* prompt.  At the parent prompt, with or without a parent abandoned before,
\* what an index or the skip signal does is fixed by the table and the input
\* alone.
C20_ChildPrompt ==
    /\ [](cs_pc = "ChoosingChild" =>
            /\ selected_category # None /\ selected_category[1] # None
            /\ \E m \in 1..Len(Parents) : Parents[m].name = selected_category[1][1]
            /\ subcategories = Some(get_children(self_categories, selected_category[1][1]))
            /\ subcategories[1] # << >>)
    /\ [][cs_pc = "ChoosingChild" =>
            LET inp == user_input'[1]
                picked == selected_category[1][1]
            IN  /\ ValidIndex(inp, Len(subcategories[1])) =>
                     /\ cs_pc' = "returned"
                     /\ selected_category' = Some(Some(subcategories[1][int(inp)[1] + 1]))
                     /\ \E k \in ChildRows(picked) :
                          cs_input[k].name = subcategories[1][int(inp)[1] + 1]
                /\ inp = << >> =>
                     /\ cs_pc' = "returned"
                     /\ selected_category' = Some(Some(picked))
                /\ lower(inp) = << "b" >> =>
                     /\ cs_pc' = "ChoosingParent"
                     /\ subcategories' = None]_vars
    /\ [][cs_pc = "ChoosingParent" =>
            LET inp == user_input'[1]
            IN  /\ (~isdigit(inp) /\ lower(inp) = << "s" >>) =>
                     (cs_pc' = "returned" /\ selected_category' = Some(None))
                /\ ValidIndex(inp, Len(Parents)) =>
                     LET name == Parents[int(inp)[1] + 1].name
                         children == get_children(self_categories, name)
                     IN  /\ selected_category' = Some(Some(name))
                         /\ children = << >> => cs_pc' = "returned"
                         /\ children # << >> =>
                              (cs_pc' = "ChoosingChild" /\ subcategories' = Some(children))]_vars

\* 'b' was given at the sub-category prompt of one parent: the parent prompt
\* is back, another parent can be picked, and the abandoned parent is still
\* in selected_category
C20_Witness ==
    /\ cs_pc = "ChoosingParent"
    /\ user_input = Some(<< "b" >>)
    /\ selected_category # None /\ selected_category[1] # None
    /\ \E m \in 1..Len(Parents) : Parents[m].name # selected_category[1][1]

\* the second of two listed children was picked
C20_WitnessChild ==
    /\ cs_pc = "returned"
    /\ user_input = Some(<< "1" >>)
    /\ selected_category # None /\ selected_category[1] # None
    /\ \A m \in 1..Len(Parents) : Parents[m].name # selected_category[1][1]

\* the parent was taken with the empty input
C20_WitnessParent ==
    /\ cs_pc = "returned"
    /\ user_input = Some(<< >>)
    /\ ChildRows(selected_category[1][1]) # {}

\* the input is one of the tokens the parent prompt acts on: the index of a
\* listed parent, or the skip signal
ParentToken(inp) ==
    ValidIndex(inp, Len(Parents)) \/ (~isdigit(inp) /\ lower(inp) = << "s" >>)

\* the input is one of the tokens the sub-category prompt acts on: the index
\* of a listed child, the back signal, or the empty line
ChildToken(inp) ==
    \/ ValidIndex(inp, Len(subcategories[1]))
    \/ (~isdigit(inp) /\ (lower(inp) = << "b" >> \/ inp = << >>))

\* C21 as stated, at the two category prompts: an input that is none of the
\* prompt's tokens, an index out of range included, raises nothing, ends no
\* selection and selects nothing; the same prompt is asked again.
C21_InvalidInputAsksAgain ==
    /\ [][(cs_pc = "ChoosingParent" /\ ~ParentToken(user_input'[1])) =>
            (cs_pc' = "ChoosingParent"
             /\ UNCHANGED <<selected_category, subcategories>>)]_vars
    /\ [][(cs_pc = "ChoosingChild" /\ ~ChildToken(user_input'[1])) =>
            (cs_pc' = "ChoosingChild"
             /\ UNCHANGED <<selected_category, subcategories>>)]_vars

\* what holds of the two category prompts apart from the failing int(): an
\* input that is none of the prompt's tokens and that int accepts whenever
\* str.isdigit does is asked for again
C21_AsksAgainUnlessIntFails ==
    /\ [][(cs_pc = "ChoosingParent" /\ ~ParentToken(user_input'[1])
           /\ (isdigit(user_input'[1]) => int(user_input'[1]) # None)) =>
            (cs_pc' = "ChoosingParent"
             /\ UNCHANGED <<selected_category, subcategories>>)]_vars
    /\ [][(cs_pc = "ChoosingChild" /\ ~ChildToken(user_input'[1])
           /\ (isdigit(user_input'[1]) => int(user_input'[1]) # None)) =>
            (cs_pc' = "ChoosingChild"
             /\ UNCHANGED <<selected_category, subcategories>>)]_vars

\* an index out of range was given at the sub-category prompt, which is
\* asked again
C21_WitnessOutOfRange ==
    /\ cs_pc = "ChoosingChild"
    /\ user_input # None
    /\ isdigit(user_input[1]) /\ int(user_input[1]) # None
    /\ int(user_input[1])[1] >= Len(subcategories[1])
    /\ int(user_input[1])[1] >= Len(Parents)

\* the column "sub-categories" shown by _display_categories
Shown == count_subcategories(self_categories, Parents)

\* C27: for every parent listed, the number shown next to it is the number
\* of names _get_children returns for it, the blank standing for none, both
\* read from the table de-duplicated by name; and the index of a parent leads
\* to the sub-category prompt exactly when a number is shown next to it.
C27_ShownCountIsNumberOfChildren ==
    /\ [](\A m \in 1..Len(Parents) :
            LET children == get_children(self_categories, Parents[m].name)
            IN  /\ Shown[m] = None <=> children = << >>
                /\ Shown[m] # None => Shown[m][1] = Len(children))
    /\ [][(cs_pc = "ChoosingParent" /\ ValidIndex(user_input'[1], Len(Parents))) =>
            LET m == int(user_input'[1])[1] + 1
            IN  /\ Shown[m] # None =>
                     (cs_pc' = "ChoosingChild" /\ Len(subcategories'[1]) = Shown[m][1])
                /\ Shown[m] = None => cs_pc' = "returned"]_vars

\* the table has two child rows of one name under the picked parent, which
\* is shown with one sub-category, and one is listed
C27_Witness ==
    /\ cs_pc = "ChoosingChild"
    /\ \E k, m \in ChildRows(selected_category[1][1]) :
         k # m /\ cs_input[k].name = cs_input[m].name
    /\ Len(subcategories[1]) = 1
    /\ \E m \in 1..Len(Parents) :
         Parents[m].name = selected_category[1][1] /\ Shown[m] = Some(1)

\* the only child row of the picked parent bears the name of an earlier row
\* and is dropped: the parent is shown with the blank and picking it ends
\* the selection
C27_WitnessShadowed ==
    /\ cs_pc = "returned"
    /\ selected_category # None /\ selected_category[1] # None
    /\ ChildRows(selected_category[1][1]) # {}
    /\ \E m \in 1..Len(Parents) :
         Parents[m].name = selected_category[1][1] /\ Shown[m] = None
    /\ user_input # None /\ isdigit(user_input[1])

(***************************************************************************)
(* Properties of the cached access token.                                  *)
(***************************************************************************)
\* the token file exists and was last modified less than 5 days ago
FreshTokenFile ==
    /\ access_token_file # None
    /\ clock - access_token_file[1].mtime < FiveDays

C23_WitnessExpired ==
    /\ tok_pc = "loaded"
    /\ access_token = None
    /\ access_token_file # None
    /\ access_token_file[1].mtime = clock - FiveDays

\* no token was returned: the client logged in and saved the new token
C23_WitnessLogin ==
    /\ tok_pc = "done"
    /\ login_calls = 1
    /\ access_token_file[1].mtime = clock
    /\ jwt_token = Some(<< "n" >>)

====
